---- MODULE Spec2Model ----
(***************************************************************************)
(* Dynamic Commands (dyncommands): the command registry (CommandParser),   *)
(* its manifest (commands.json) and script files (zzz__<name>.py), the     *)
(* permission-scoped node tree and the parse / execute pipeline.           *)
(*                                                                         *)
(* Text is a sequence of one-character strings.  A command or argument     *)
(* name is a text as well (<<"a">>), so that prefix removal, stripping,    *)
(* splitting and case folding are computed on the characters.              *)
(***************************************************************************)
EXTENDS Integers, Sequences, FiniteSets, TLC

VARIABLES
    manifest,            \* commands.json: the "commands" list (CommandData records)
    manifest_prefix,     \* commands.json: "commandPrefix"
    manifest_empty,      \* commands.json is an empty file, it holds no JSON document
    manifest_exists,     \* commands.json exists in the commands path
    files,               \* script files zzz__<name>.py: name -> what the script is
    commands,            \* CommandParser.commands (CaseInsensitiveDict of Command)
    command_data,        \* CommandParser.command_data
    command_prefix,      \* CommandParser._command_prefix
    ignore_permission,   \* CommandParser._ignore_permission
    unrestricted,        \* CommandParser._unrestricted
    init_args,           \* what __init__ was given, and the interpreter it runs on
    last,                \* the last operation: its inputs and what it did
    query,               \* the last CommandSource.has_permission call
    proxy,               \* the last PrivateProxy construction
    threads,             \* the host's threads that run an operation step by step
    nodes                \* the Node objects of the host, by identity

vars == <<manifest, manifest_prefix, manifest_empty, manifest_exists, files, commands,
          command_data,
          command_prefix, ignore_permission, unrestricted, init_args, last, query, proxy,
          threads, nodes>>

----------------------------------------------------------------------------
(* Bounds                                                                  *)

\* argument tokens after the command name in a working string
MaxArgs == 2
\* node permission levels range over -1 .. MaxPerm
MaxPerm == 1
\* caller permission levels range over -1 .. MaxCaller
MaxCaller == 1
\* has_permission is tabulated over -MaxLevel .. MaxLevel on both sides
MaxLevel == 5

\* the Node objects a host constructs
MaxNodes == 3

\* the arguments of one add_children or remove_children call
MaxRefs == 2

----------------------------------------------------------------------------
(* Text                                                                    *)

\* str.lower on one character
LowerChar(c) ==
    IF c = "A" THEN "a" ELSE IF c = "B" THEN "b" ELSE IF c = "N" THEN "n"
    ELSE IF c = "X" THEN "x" ELSE IF c = "Y" THEN "y" ELSE c

\* str.lower: the key a CaseInsensitiveDict files a name under
Lower(s) ==
    [i \in DOMAIN s |-> LowerChar(s[i])]

StartsWith(s, p) ==
    /\ Len(p) <= Len(s)
    /\ SubSeq(s, 1, Len(p)) = p

\* removeprefix leaving the prefix in place
removeprefix_kept(s, p) ==
    s

\* str.removeprefix: the text is returned unchanged when it does not start with p
removeprefix(s, p) ==
    IF StartsWith(s, p) THEN SubSeq(s, Len(p) + 1, Len(s)) ELSE s

RECURSIVE rstrip(_, _)
\* str.rstrip(chars)
rstrip(s, chars) ==
    IF s # <<>> /\ s[Len(s)] \in chars THEN rstrip(SubSeq(s, 1, Len(s) - 1), chars) ELSE s

RECURSIVE lstrip(_, _)
lstrip(s, chars) ==
    IF s # <<>> /\ Head(s) \in chars THEN lstrip(Tail(s), chars) ELSE s

\* the whitespace str.strip() removes
Whitespace == {" "}

\* str.strip()
strip(s) ==
    lstrip(rstrip(s, Whitespace), Whitespace)

RECURSIVE split(_, _)
\* str.split(sep) for a one-character separator: empty pieces are kept
split(s, sep) ==
    IF \A i \in DOMAIN s : s[i] # sep
    THEN <<s>>
    ELSE LET i == CHOOSE j \in DOMAIN s : s[j] = sep /\ \A k \in 1..(j - 1) : s[k] # sep
         IN  <<SubSeq(s, 1, i - 1)>> \o split(SubSeq(s, i + 1, Len(s)), sep)

\* the tag character some chat transports append (U+E0000)
TagChar == "~"

\* CommandParser._delimiting_str
delimiting_str == " "

RECURSIVE join(_, _)
\* sep.join(words)
join(words, sep) ==
    IF words = <<>> THEN <<>>
    ELSE IF Len(words) = 1 THEN words[1]
    ELSE words[1] \o <<sep>> \o join(Tail(words), sep)

Digits == <<"0", "1", "2", "3", "4", "5", "6", "7", "8", "9">>

is_digit(c) ==
    \E i \in DOMAIN Digits : Digits[i] = c

digit_value(c) ==
    (CHOOSE i \in DOMAIN Digits : Digits[i] = c) - 1

\* the text without a leading sign
unsigned(s) ==
    IF s # <<>> /\ Head(s) \in {"-", "+"} THEN Tail(s) ELSE s

\* int(s) returns: s is decimal digits after an optional sign (ValueError otherwise)
parses_int(s) ==
    /\ unsigned(s) # <<>>
    /\ \A i \in DOMAIN unsigned(s) : is_digit(unsigned(s)[i])

RECURSIVE digits_value(_)
digits_value(s) ==
    IF s = <<>> THEN 0
    ELSE 10 * digits_value(SubSeq(s, 1, Len(s) - 1)) + digit_value(s[Len(s)])

\* int(s) for a text that parses
int(s) ==
    IF s # <<>> /\ Head(s) = "-" THEN 0 - digits_value(unsigned(s))
    ELSE digits_value(unsigned(s))

RECURSIVE str(_)
\* str(n) for an integer n
str(n) ==
    IF n < 0 THEN <<"-">> \o str(0 - n)
    ELSE IF n < 10 THEN <<Digits[n + 1]>>
    ELSE str(n \div 10) \o <<Digits[(n % 10) + 1]>>

----------------------------------------------------------------------------
(* CaseInsensitiveDict: keys are filed under their lower-case form         *)

EmptyDict == <<>>

\* the lookup by the key as written
dict_has_exact(d, k) ==
    k \in DOMAIN d

dict_has(d, k) ==
    Lower(k) \in DOMAIN d

dict_set(d, k, v) ==
    [x \in (DOMAIN d) \cup {Lower(k)} |-> IF x = Lower(k) THEN v ELSE d[x]]

dict_pop(d, k) ==
    [x \in (DOMAIN d) \ {Lower(k)} |-> d[x]]

dict_values(d) ==
    {d[x] : x \in DOMAIN d}

----------------------------------------------------------------------------
(* Node tree                                                               *)

\* the keywords Node.__init__ knows, parent aside
NodeKeys ==
    {"name", "usage", "description", "permission", "children", "disabled"}

\* what Node(parent=self, **props) raises.  The Nodes of a non-empty props.children
\* are constructed, and file themselves in self.children, before self.children is
\* assigned: AttributeError.  A keyword left over after the known ones are popped:
\* ValueError.
Node_raises(props) ==
    IF props.children # <<>> THEN "AttributeError"
    ELSE IF DOMAIN props \subseteq NodeKeys THEN "none"
    ELSE "ValueError"

RECURSIVE children_raise(_)
\* what the construction of the Nodes of seq, in order, raises
children_raise(seq) ==
    IF seq = <<>> THEN "none"
    ELSE IF Node_raises(Head(seq)) # "none" THEN Node_raises(Head(seq))
    ELSE children_raise(Tail(seq))

RECURSIVE Node(_)
RECURSIVE node_children(_)
\* Node.__init__(**props) that raises nothing: the Node it constructs
Node(props) ==
    [name       |-> props.name,
     permission |-> props.permission,
     disabled   |-> props.disabled,
     children   |-> node_children(props.children)]

\* CaseInsensitiveDict({props.name: Node(parent=self, **props) for props in children}):
\* a later entry of the same (case-folded) name replaces an earlier one
node_children(seq) ==
    IF seq = <<>> THEN EmptyDict
    ELSE LET n == Len(seq)
         IN  dict_set(node_children(SubSeq(seq, 1, n - 1)), seq[n].name, Node(seq[n]))

\* has_permission without its floor: a negative level is satisfied
has_permission_no_floor(permission, perm_lvl) ==
    perm_lvl <= permission

\* has_permission with a strict floor: level 0 is not satisfied
has_permission_strict(permission, perm_lvl) ==
    0 < perm_lvl /\ perm_lvl <= permission

\* CommandSource.has_permission
has_permission(permission, perm_lvl) ==
    0 <= perm_lvl /\ perm_lvl <= permission


RECURSIVE walk_stops(_, _, _)
\* the walk ended by the first token that names no child of the current node
walk_stops(node, path, args) ==
    IF args = <<>> THEN [node |-> node, path |-> path]
    ELSE IF dict_has(node.children, Head(args))
         THEN walk_stops(node.children[Lower(Head(args))], Append(path, Lower(Head(args))),
                         Tail(args))
         ELSE [node |-> node, path |-> path]

RECURSIVE walk(_, _, _)
\* Command._execute, the loop over args: final_node = final_node.children.get(arg, final_node)
walk(node, path, args) ==
    IF args = <<>> THEN [node |-> node, path |-> path]
    ELSE IF dict_has(node.children, Head(args))
         THEN walk(node.children[Lower(Head(args))], Append(path, Lower(Head(args))), Tail(args))
         ELSE walk(node, path, Tail(args))

----------------------------------------------------------------------------
(* The plain dict {command.name: command for command in data.commands}:    *)
(* a sequence of entries with distinct names, in insertion order           *)

by_name_has(d, name) ==
    \E i \in DOMAIN d : d[i].name = name

by_name_get(d, name) ==
    d[CHOOSE i \in DOMAIN d : d[i].name = name]

\* d[name] = entry: replaces in place, or appends
by_name_set(d, name, entry) ==
    IF by_name_has(d, name)
    THEN [i \in DOMAIN d |-> IF d[i].name = name THEN entry ELSE d[i]]
    ELSE Append(d, entry)

\* d.pop(name, None)
by_name_pop(d, name) ==
    SelectSeq(d, LAMBDA e : e.name # name)

RECURSIVE by_name(_)
\* the dict comprehension over a list of entries
by_name(seq) ==
    IF seq = <<>> THEN <<>>
    ELSE LET n == Len(seq)
         IN  by_name_set(by_name(SubSeq(seq, 1, n - 1)), seq[n].name, seq[n])

\* the veto lost: no entry is taken to be protected
not_overridable_lost(d, name) ==
    FALSE

\* commands.get(name, CommandData.empty()).overridable is False
not_overridable(d, name) ==
    by_name_has(d, name) /\ ~by_name_get(d, name).overridable

----------------------------------------------------------------------------
(* The registry as a value: what an operation reads and what it leaves     *)

Registry ==
    [manifest        |-> manifest,
     manifest_prefix |-> manifest_prefix,
     manifest_empty  |-> manifest_empty,
     manifest_exists |-> manifest_exists,
     files           |-> files,
     commands        |-> commands,
     command_data    |-> command_data,
     command_prefix  |-> command_prefix]

\* utils.DUMMY_FUNC, the function of a Command no script was loaded into
DUMMY_FUNC == "DUMMY_FUNC"

\* commands.json read whether it exists or not
json_load_unchecked(S) ==
    IF S.manifest_empty THEN "JSONDecodeError" ELSE "none"

\* opening commands.json and json.load(file): what it raises.  reload() raises
\* FileNotFoundError itself when json_path.exists() is false, the other operations
\* raise it from json_path.open(mode='r')
json_load(S) ==
    IF ~S.manifest_exists THEN "FileNotFoundError"
    ELSE IF S.manifest_empty THEN "JSONDecodeError" ELSE "none"

\* remove_command that leaves the in-memory command set as it was
remove_command_on_disk(S, name) ==
    LET d       == by_name(S.manifest)
        popped  == by_name_pop(d, name)
        removed == by_name_has(d, name) \/ name \in DOMAIN S.files
        written == [S EXCEPT !.manifest = popped,
                             !.files = [f \in (DOMAIN S.files) \ {name} |-> S.files[f]]]
    IN  IF json_load(S) # "none"
        THEN [S |-> S, ret |-> <<>>, raised |-> json_load(S)]
        ELSE IF not_overridable(d, name)
        THEN [S |-> S, ret |-> <<>>, raised |-> "none"]
        ELSE IF removed
        THEN [S |-> [written EXCEPT !.command_data = popped], ret |-> name, raised |-> "none"]
        ELSE [S |-> written, ret |-> <<>>, raised |-> "none"]

\* CommandParser.remove_command
remove_command(S, name) ==
    LET d       == by_name(S.manifest)
        popped  == by_name_pop(d, name)
        removed == by_name_has(d, name) \/ name \in DOMAIN S.files
        written == [S EXCEPT !.manifest = popped,
                             !.files = [f \in (DOMAIN S.files) \ {name} |-> S.files[f]]]
    IN  IF json_load(S) # "none"
        THEN [S |-> S, ret |-> <<>>, raised |-> json_load(S)]
        ELSE IF not_overridable(d, name)
        THEN [S |-> S, ret |-> <<>>, raised |-> "none"]
        ELSE IF removed
        THEN [S      |-> [written EXCEPT !.command_data = popped,
                                         !.commands = dict_pop(written.commands, name)],
              ret    |-> name,
              raised |-> "none"]
        ELSE [S |-> written, ret |-> <<>>, raised |-> "none"]

\* the name a script has to define its entry point under
CommandDef == <<"c", "o", "m", "m", "a", "n", "d">>

\* a script file: what its body does when it is compiled and called ("broken": it
\* does not compile), and the name of the function it defines
Script(body, entry) ==
    [body |-> body, entry |-> entry]

\* the script file of a command can be opened and compiled
loads(S, name) ==
    name \in DOMAIN S.files /\ S.files[name].body # "broken"

\* CommandParser._load_module: the registry it leaves and the function it binds
load_module(S, name) ==
    IF loads(S, name)
    THEN [S        |-> S,
          function |-> IF S.files[name].entry = CommandDef
                       THEN S.files[name].body ELSE DUMMY_FUNC]
    ELSE [S |-> remove_command(S, name).S, function |-> DUMMY_FUNC]

\* Command.__init__(data, parser)
Command(S, data) ==
    LET raised == children_raise(data.children)
        loaded == IF raised = "none" /\ data.function THEN load_module(S, data.name)
                  ELSE [S |-> S, function |-> DUMMY_FUNC]
    IN  [S      |-> loaded.S,
         raised |-> raised,
         cmd    |-> [name        |-> data.name,
                     usage       |-> data.usage,
                     description |-> data.description,
                     permission  |-> data.permission,
                     disabled    |-> data.disabled,
                     children    |-> IF raised = "none"
                                     THEN node_children(data.children) ELSE EmptyDict,
                     function    |-> loaded.function]]

RECURSIVE build_commands(_, _)
\* CaseInsensitiveDict({command.name: Command(command, self) for command in self.command_data}):
\* the registry after constructing the Commands of seq in order, up to the first
\* that raises, the dict built, and what was raised
build_commands(S, seq) ==
    IF seq = <<>> THEN [S |-> S, dict |-> EmptyDict, raised |-> "none"]
    ELSE LET n    == Len(seq)
             done == build_commands(S, SubSeq(seq, 1, n - 1))
             made == Command(done.S, seq[n])
         IN  IF done.raised # "none" THEN done
             ELSE IF made.raised # "none"
             THEN [S |-> made.S, dict |-> done.dict, raised |-> made.raised]
             ELSE [S      |-> made.S,
                   dict   |-> dict_set(done.dict, seq[n].name, made.cmd),
                   raised |-> "none"]

\* reload, from the assignment of _command_prefix and command_data to the end of the
\* dict comprehension that constructs the Commands
reload_built(S) ==
    LET read == [S EXCEPT !.command_prefix = S.manifest_prefix,
                          !.command_data = S.manifest]
    IN  build_commands(read, read.command_data)

\* CommandParser.reload: the registry it leaves.  self.commands is assigned when
\* every Command has been constructed
reload(S) ==
    LET built == reload_built(S)
    IN  IF json_load(S) # "none" THEN S
        ELSE IF built.raised # "none" THEN built.S
        ELSE [built.S EXCEPT !.commands = built.dict]

\* CommandParser.reload: what it raises
reload_raises(S) ==
    IF json_load(S) # "none" THEN json_load(S) ELSE reload_built(S).raised

\* CommandParser.prefix, the setter: in memory and in commands.json
set_prefix(S, value) ==
    IF json_load(S) # "none" THEN [S EXCEPT !.command_prefix = value]
    ELSE [S EXCEPT !.command_prefix = value, !.manifest_prefix = value]

\* set_disabled that writes the manifest and leaves the Command in memory as it was
set_disabled_on_disk(S, command_name, value) ==
    LET d == by_name(S.manifest)
    IN  IF json_load(S) # "none"
        THEN [S |-> S, ok |-> FALSE, raised |-> json_load(S)]
        ELSE IF not_overridable(d, command_name)
        THEN [S |-> S, ok |-> FALSE, raised |-> "none"]
        ELSE IF ~by_name_has(d, command_name)
        THEN [S |-> S, ok |-> FALSE, raised |-> "KeyError"]
        ELSE IF ~dict_has(S.commands, command_name)
        THEN [S |-> S, ok |-> FALSE, raised |-> "AttributeError"]
        ELSE [S      |-> [S EXCEPT
                            !.manifest = by_name_set(d, command_name,
                                [by_name_get(d, command_name) EXCEPT !.disabled = value])],
              ok     |-> TRUE,
              raised |-> "none"]

\* CommandParser.set_disabled: the registry it leaves, what it returns or raises
set_disabled(S, command_name, value) ==
    LET d == by_name(S.manifest)
    IN  IF json_load(S) # "none"
        THEN [S |-> S, ok |-> FALSE, raised |-> json_load(S)]
        ELSE IF not_overridable(d, command_name)
        THEN [S |-> S, ok |-> FALSE, raised |-> "none"]
        ELSE IF ~by_name_has(d, command_name)
        THEN [S |-> S, ok |-> FALSE, raised |-> "KeyError"]
        ELSE IF ~dict_has(S.commands, command_name)
        THEN [S |-> S, ok |-> FALSE, raised |-> "AttributeError"]
        ELSE [S      |-> [S EXCEPT
                            !.manifest = by_name_set(d, command_name,
                                [by_name_get(d, command_name) EXCEPT !.disabled = value]),
                            !.commands[Lower(command_name)].disabled = value],
              ok     |-> TRUE,
              raised |-> "none"]

RECURSIVE replace_first(_, _, _)
\* str.replace(old, new, 1) for a non-empty old
replace_first(s, old, new) ==
    IF Len(s) < Len(old) THEN s
    ELSE IF StartsWith(s, old)
         THEN new \o SubSeq(s, Len(old) + 1, Len(s))
         ELSE <<Head(s)>> \o replace_first(Tail(s), old, new)

RECURSIVE replace(_, _, _)
\* str.replace(old, new) for a non-empty old
replace(s, old, new) ==
    IF Len(s) < Len(old) THEN s
    ELSE IF StartsWith(s, old)
         THEN new \o replace(SubSeq(s, Len(old) + 1, Len(s)), old, new)
         ELSE <<Head(s)>> \o replace(Tail(s), old, new)

Def == <<"d", "e", "f", " ">>

\* add_command: func_name, the name after 'def ' with '_' replaced by '-'
func_name_of(text) ==
    replace(text.func_name, <<"_">>, <<"-">>)

\* add_command: kwargs.pop(key, default)
kwargs_pop(text, key, default) ==
    IF key \in DOMAIN text.kwargs THEN text.kwargs[key] ELSE default

\* add_command: command_data after the lines above the def are read.  The value of
\* a header line is taken when the value popped from kwargs is falsy ("not default"):
\* a text as it is, the Permission cast by int() unless int() raises ValueError, the
\* Children loaded as JSON unless json.loads raises ValueError
header_data(text) ==
    LET name        == kwargs_pop(text, "name", <<>>)
        usage       == kwargs_pop(text, "usage", <<>>)
        description == kwargs_pop(text, "description", <<>>)
        permission  == kwargs_pop(text, "permission", 0)
        children    == kwargs_pop(text, "children", <<>>)
    IN  [name        |-> IF name = <<>> THEN text.name ELSE name,
         usage       |-> IF usage = <<>> THEN text.usage ELSE usage,
         description |-> IF description = <<>> THEN text.description ELSE description,
         permission  |-> IF permission = 0 /\ parses_int(text.permission)
                         THEN int(text.permission) ELSE permission,
         children    |-> IF children = <<>> /\ text.children.kind = "list"
                         THEN text.children.list ELSE children,
         not_a_list  |-> children = <<>> /\ text.children.kind = "scalar"]

\* add_command: what reading the lines above the def raises.  get_data() takes what
\* follows the first ':' of a header line, line.split(':', 1)[1], and a header line
\* that has no ':' raises IndexError, which nothing catches; the line is read when
\* the value popped from kwargs is falsy
header_raises(text) ==
    IF \E key \in text.no_colon :
           kwargs_pop(text, key, IF key = "permission" THEN 0 ELSE <<>>) =
               (IF key = "permission" THEN 0 ELSE <<>>)
    THEN "IndexError" ELSE "none"

\* CommandData(name=..., children=command_data[4], ...): what it raises.  Children
\* that are no list cannot be turned into CommandData one by one
new_data_raises(text) ==
    IF header_data(text).not_a_list THEN "TypeError" ELSE "none"

\* the CommandData add_command builds from the text it is given; the name is the
\* func_name when neither a keyword nor the header gives one
new_data(text) ==
    LET command_data_ == header_data(text)
    IN  [name        |-> IF command_data_.name # <<>> THEN command_data_.name
                         ELSE func_name_of(text),
         usage       |-> command_data_.usage,
         description |-> command_data_.description,
         permission  |-> command_data_.permission,
         function    |-> TRUE,
         children    |-> command_data_.children,
         overridable |-> TRUE,
         disabled    |-> FALSE]

\* add_command: the function name of the stored script, after
\* replace(f'def {func_name}', 'def command', 1) on the line of the def
stored_entry(text) ==
    LET line   == Def \o text.func_name
        stored == replace_first(line, Def \o func_name_of(text), Def \o CommandDef)
    IN  SubSeq(stored, Len(Def) + 1, Len(stored))

\* module_path.open(mode='w') of zzz__<name>.py succeeds: the commands directory has
\* no directories in it, so a name with a path separator names a file in a directory
\* that does not exist
opens_to_write(S, name) ==
    ~\E i \in DOMAIN name : name[i] = "/"

\* json_path.open(mode='w'): commands.json is left an empty file
truncated(S) ==
    [S EXCEPT !.manifest_empty = TRUE, !.manifest = <<>>, !.manifest_prefix = <<>>]

\* CommandParser.add_command
add_command(S, text) ==
    LET nd      == new_data(text)
        d       == by_name(S.manifest)
        added   == by_name_set(d, nd.name, nd)
        written == [S EXCEPT !.manifest = added,
                             !.files = [f \in (DOMAIN S.files) \cup {nd.name} |->
                                           IF f = nd.name
                                           THEN Script(text.body, stored_entry(text))
                                           ELSE S.files[f]],
                             !.command_data = added]
        made    == Command(written, nd)
    IN  IF header_raises(text) # "none"
        THEN [S |-> S, ret |-> <<>>, raised |-> header_raises(text)]
        ELSE IF text.func_name = <<>>
        THEN [S |-> S, ret |-> <<>>, raised |-> "none"]
        ELSE IF new_data_raises(text) # "none"
        THEN [S |-> S, ret |-> <<>>, raised |-> new_data_raises(text)]
        ELSE IF json_load(S) # "none"
        THEN [S |-> S, ret |-> <<>>, raised |-> json_load(S)]
        ELSE IF not_overridable(d, nd.name)
        THEN [S |-> S, ret |-> <<>>, raised |-> "none"]
        ELSE IF ~opens_to_write(S, nd.name)
        THEN [S |-> truncated(S), ret |-> <<>>, raised |-> "FileNotFoundError"]
        ELSE IF made.raised # "none"
        THEN [S |-> made.S, ret |-> <<>>, raised |-> made.raised]
        ELSE [S      |-> [made.S EXCEPT
                            !.commands = dict_set(made.S.commands, nd.name, made.cmd)],
              ret    |-> nd.name,
              raised |-> "none"]


----------------------------------------------------------------------------
(* Capability proxy                                                        *)
(*                                                                         *)
(* An object is a function from its attribute names to the kind of value   *)
(* each holds.  An attribute name is the pair of its first character and   *)
(* the rest of it: <<"_", "function">> is _function.                       *)

Plain == "plain"
\* a pathlib.Path
PathValue == "path"
\* a PrivateProxy
ProxyValue == "proxy"

Kinds == {Plain, PathValue, ProxyValue}

\* the default of exclude_predicate and include_predicate, lambda attr, attr_val: False,
\* as a predicate (attr, attr_val) -> bool over the attributes of o
never(o) ==
    [x \in (DOMAIN o) \X Kinds |-> FALSE]

\* PrivateProxy keeping an attribute only when it is both public and included
PrivateProxy_needs_both(o, exclude_predicate, include_predicate) ==
    LET is_private(attr) ==
            exclude_predicate[<<attr, o[attr]>>] \/ StartsWith(attr, <<"_">>)
        kept == {attr \in DOMAIN o :
                    ~is_private(attr) /\ include_predicate[<<attr, o[attr]>>]}
    IN  [attr \in kept |-> o[attr]]

\* PrivateProxy.__init__(o, exclude_predicate, include_predicate), the other
\* parameters at their defaults: the attributes it sets on the proxy
PrivateProxy(o, exclude_predicate, include_predicate) ==
    LET is_private(attr) ==
            exclude_predicate[<<attr, o[attr]>>] \/ StartsWith(attr, <<"_">>)
        kept == {attr \in DOMAIN o :
                    ~(is_private(attr) /\ include_predicate[<<attr, o[attr]>>] = FALSE)}
    IN  [attr \in kept |-> o[attr]]

\* _should_hide_attr letting Path values through
should_hide_attr_no_path(unr, name, o) ==
    IF unr THEN FALSE
    ELSE o # ProxyValue /\ StartsWith(name, <<"_">>)

\* CommandParser._should_hide_attr(name, o)
should_hide_attr(unr, name, o) ==
    IF unr THEN FALSE
    ELSE o # ProxyValue /\ (o = PathValue \/ StartsWith(name, <<"_">>))

\* the objects parse and _execute put into kwargs: the Command, the CommandParser and
\* the CommandContext, by some of their attributes
command_object ==
    (<<"n", "ame">> :> Plain) @@ (<<"p", "ermission">> :> Plain)
    @@ (<<"c", "hildren">> :> Plain) @@ (<<"_", "function">> :> Plain)
    @@ (<<"_", "execute">> :> Plain)

parser_object ==
    (<<"c", "ommands">> :> Plain) @@ (<<"p", "ath">> :> PathValue)
    @@ (<<"r", "eload">> :> Plain) @@ (<<"_", "command_prefix">> :> Plain)
    @@ (<<"_", "load_module">> :> Plain)

context_object ==
    (<<"w", "orking_string">> :> Plain) @@ (<<"s", "ource">> :> Plain)
    @@ (<<"_", "working_string">> :> Plain) @@ (<<"_", "source">> :> Plain)

\* what the executable is handed for one named parameter
Handed(proxied, attrs) ==
    [proxied |-> proxied, attrs |-> attrs]

\* Command._execute: kwargs = {kwarg: PrivateProxy(kwval, parser._should_hide_attr) ...}
\* unless the parser is unrestricted
proxy_kwargs(kwargs, unr) ==
    [kwarg \in DOMAIN kwargs |->
        IF ~unr
        THEN Handed(TRUE, PrivateProxy(kwargs[kwarg],
                 [x \in (DOMAIN kwargs[kwarg]) \X Kinds |->
                     should_hide_attr(unr, x[1], x[2])],
                 never(kwargs[kwarg])))
        ELSE Handed(FALSE, kwargs[kwarg])]

----------------------------------------------------------------------------
(* Execution and dispatch                                                  *)

\* what the entry point of the test scripts returns
ReturnText == <<"r">>

\* the placeholder parse replaces by the prefix in a usage message
Placeholder == <<"!", "#", "p", "r", "e", "f", "i", "x", "#", "!">>

\* the message of the ImproperUsageError a script raises
UsageMessage == <<"u">> \o Placeholder \o <<"h", " ">> \o Placeholder

\* the exceptions that are CommandError or a subclass of it
CommandErrors ==
    {"CommandError", "DisabledError", "ImproperUsageError", "NoPermissionError",
     "NotFoundError"}

\* self._function(*args, **kwargs) by what the script of the command does: the value
\* returned (none for None), or the exception raised and its message
call(function) ==
    LET nothing == [returned |-> <<>>, cause |-> "none", message |-> <<>>]
    IN  CASE function = "ok"          -> [nothing EXCEPT !.returned = <<ReturnText>>]
          [] function = "empty"       -> [nothing EXCEPT !.returned = << <<>> >>]
          [] function = "usage"       -> [nothing EXCEPT !.cause = "ImproperUsageError",
                                                         !.message = UsageMessage]
          [] function = "usage_empty" -> [nothing EXCEPT !.cause = "ImproperUsageError"]
          [] function = "error"       -> [nothing EXCEPT !.cause = "ValueError",
                                                         !.message = <<"v">>]
          [] OTHER                    -> nothing

\* what an operation that has not run an execute reports
Quiet ==
    [raised   |-> "none",
     thrown   |-> "none",
     cause    |-> "none",
     message  |-> <<>>,
     token    |-> <<>>,
     command  |-> <<>>,
     args     |-> <<>>,
     node     |-> <<>>,
     final    |-> <<>>,
     resolved |-> FALSE,
     invoked  |-> FALSE,
     kwargs   |-> <<>>,
     handed   |-> <<>>,
     returned |-> <<>>,
     sent     |-> <<>>]

\* the try block of _execute: the call of the executable, an exception of it wrapped
\* into CommandError(self, context, e)
invoke(found, cmd, kwargs, unr) ==
    LET result == call(cmd.function)
        ran    == [found EXCEPT !.invoked = TRUE,
                                !.handed = proxy_kwargs(("self" :> command_object) @@ kwargs, unr),
                                !.returned = result.returned]
    IN  IF result.cause = "none" THEN ran
        ELSE [ran EXCEPT !.raised = "CommandError",
                         !.cause = result.cause,
                         !.message = result.message]

\* _execute checking the permission before the disabled flags
execute_permission_first(cmd, args, kwargs, source_permission, ignore, unr) ==
    LET w == walk(cmd, <<>>, args)
        found == [Quiet EXCEPT !.command = Lower(cmd.name),
                               !.args = args,
                               !.final = w.path,
                               !.resolved = TRUE]
    IN  IF has_permission(source_permission, w.node.permission) \/ ignore
        THEN IF ~cmd.disabled /\ ~w.node.disabled
             THEN invoke(found, cmd, kwargs, unr)
             ELSE [found EXCEPT !.raised = "DisabledError", !.node = <<>>]
        ELSE [found EXCEPT !.raised = "NoPermissionError", !.node = w.path]

\* _execute checking the command's own permission instead of the final node's
execute_command_permission(cmd, args, kwargs, source_permission, ignore, unr) ==
    LET w == walk(cmd, <<>>, args)
        found == [Quiet EXCEPT !.command = Lower(cmd.name),
                               !.args = args,
                               !.final = w.path,
                               !.resolved = TRUE]
    IN  IF ~cmd.disabled /\ ~w.node.disabled
        THEN IF has_permission(source_permission, cmd.permission) \/ ignore
             THEN invoke(found, cmd, kwargs, unr)
             ELSE [found EXCEPT !.raised = "NoPermissionError", !.node = w.path]
        ELSE [found EXCEPT !.raised = "DisabledError", !.node = <<>>]

\* Command._execute: node is the path, below the command, of the node the error
\* carries; final is the path of final_node
execute(cmd, args, kwargs, source_permission, ignore, unr) ==
    LET w == walk(cmd, <<>>, args)
        found == [Quiet EXCEPT !.command = Lower(cmd.name),
                               !.args = args,
                               !.final = w.path,
                               !.resolved = TRUE]
    IN  IF ~cmd.disabled /\ ~w.node.disabled
        THEN IF has_permission(source_permission, w.node.permission) \/ ignore
             THEN invoke(found, cmd, kwargs, unr)
             ELSE [found EXCEPT !.raised = "NoPermissionError", !.node = w.path]
        ELSE [found EXCEPT !.raised = "DisabledError", !.node = <<>>]

\* e.parent taken to be the error caught: the wrapper is what parse raises
parent_wrapper(done) ==
    done.raised

\* e.parent of the CommandError parse catches: the cause of a wrapper, the error
\* itself for the errors _execute raises of its own
parent(done) ==
    IF done.raised = "CommandError" THEN done.cause ELSE done.raised

\* parse sending a returned value only when it is not empty
feedback_truthy(done, prefix) ==
    IF done.raised = "none"
    THEN IF done.returned = << <<>> >> THEN <<>> ELSE done.returned
    ELSE IF parent(done) = "ImproperUsageError" /\ done.message # <<>>
    THEN <<replace(done.message, Placeholder, prefix)>>
    ELSE <<>>

\* parse relaying the message of any exception of the executable
feedback_any_error(done, prefix) ==
    IF done.raised = "none"
    THEN done.returned
    ELSE IF done.message # <<>>
    THEN <<replace(done.message, Placeholder, prefix)>>
    ELSE <<>>

\* CommandParser.parse, what it sends to the feedback callback of the source: the
\* returned value when it is not None, the message of an ImproperUsageError when it
\* is not empty
feedback(done, prefix) ==
    IF done.raised = "none"
    THEN done.returned
    ELSE IF parent(done) = "ImproperUsageError" /\ done.message # <<>>
    THEN <<replace(done.message, Placeholder, prefix)>>
    ELSE <<>>

\* CommandParser.parse: thrown is what the call of the command raised, raised what
\* parse raises to its caller
parse(S, ignore, unr, working_string, kwargs, source_permission) ==
    LET input_ == strip(rstrip(removeprefix(working_string, S.command_prefix), {TagChar}))
        pieces == split(input_, delimiting_str)
        name   == pieces[1]
        args   == Tail(pieces)
        done   == execute(S.commands[Lower(name)], args,
                          ("context" :> context_object) @@ ("parser" :> parser_object)
                              @@ kwargs,
                          source_permission, ignore, unr)
    IN  IF input_ = <<>>
        THEN Quiet
        ELSE IF dict_has(S.commands, name)
        THEN [done EXCEPT !.token = name,
                          !.thrown = done.raised,
                          !.sent = feedback(done, S.command_prefix),
                          !.raised = IF parent(done) \in CommandErrors
                                     THEN parent(done) ELSE "none"]
        ELSE [Quiet EXCEPT !.raised = "NotFoundError",
                           !.thrown = "NotFoundError",
                           !.token = name]

----------------------------------------------------------------------------
(* State machine                                                           *)

\* the registry is S
Holds(S) ==
    /\ manifest = S.manifest
    /\ manifest_prefix = S.manifest_prefix
    /\ manifest_empty = S.manifest_empty
    /\ manifest_exists = S.manifest_exists
    /\ files = S.files
    /\ commands = S.commands
    /\ command_data = S.command_data
    /\ command_prefix = S.command_prefix

\* the operation leaves the registry S
Install(S) ==
    /\ manifest' = S.manifest
    /\ manifest_prefix' = S.manifest_prefix
    /\ manifest_empty' = S.manifest_empty
    /\ manifest_exists' = S.manifest_exists
    /\ files' = S.files
    /\ commands' = S.commands
    /\ command_data' = S.command_data
    /\ command_prefix' = S.command_prefix

\* the inputs and the result of an operation, as one record
Op(op, ws, caller, name, value, text, out, ret, ok) ==
    [op |-> op, ws |-> ws, caller |-> caller, name |-> name, value |-> value,
     text |-> text, ret |-> ret, ok |-> ok] @@ out

\* no keyword arguments
NoKwargs == <<>>

\* no # Children line in the header
NoChildrenLine == [kind |-> "none", list |-> <<>>]

\* a text handed to add_command: the name of its top-level function (empty: it has
\* none), the values of the header lines above it as they are written (empty: no
\* such line), the header lines that have no ':', the keyword arguments given along
\* with it, and what its body does
NoText ==
    [func_name |-> <<>>, name |-> <<>>, usage |-> <<>>, description |-> <<>>,
     permission |-> <<>>, children |-> NoChildrenLine, kwargs |-> NoKwargs,
     no_colon |-> {}, body |-> "ok"]

\* no thread of the host is inside an operation
NoThreads == <<>>

\* the host holds no Node of its own
NoNodes == <<>>

NoQuery ==
    [permission |-> 0, perm_lvl |-> 0, asked |-> FALSE, result |-> FALSE]

\* no PrivateProxy has been constructed by the host
NoProxy ==
    [o |-> <<>>, exclude_predicate |-> <<>>, include_predicate |-> <<>>,
     made |-> FALSE, attrs |-> <<>>]

\* no named parameters of the host's own
NoExtras == <<>>

\* CommandParser.__init__: unrestricted = False if _impl() == 'CPython' else True when
\* it is given None
resolve_unrestricted(args) ==
    IF args.unrestricted = "None" THEN args.impl # "CPython"
    ELSE args.unrestricted = "True"

\* __init__ called without unrestricted, on CPython
DefaultArgs ==
    [unrestricted |-> "None", impl |-> "CPython"]

\* __init__ has returned: the host holds the registry
Constructed ==
    last.op # "new"

\* CommandParser.parse(context, **kwargs)
Parse(ws, caller, kwargs) ==
    /\ Constructed
    /\ last' = [Op("parse", ws, caller, <<>>, FALSE, NoText,
                     parse(Registry, ignore_permission, unrestricted, ws, kwargs, caller),
                     <<>>, TRUE) EXCEPT !.kwargs = kwargs]
    /\ UNCHANGED <<manifest, manifest_prefix, manifest_empty, manifest_exists, files,
                   commands, command_data,
                   command_prefix, ignore_permission, unrestricted, init_args,
                   query, proxy, threads, nodes>>

\* CommandParser.reload(), called by __init__ and by the host
Reload ==
    /\ Install(reload(Registry))
    /\ last' = Op(IF Constructed \/ reload_raises(Registry) = "none" THEN "reload" ELSE "new",
                  <<>>, 0, <<>>, FALSE, NoText,
                  [Quiet EXCEPT !.raised = reload_raises(Registry)], <<>>,
                  reload_raises(Registry) = "none")
    /\ UNCHANGED <<ignore_permission, unrestricted, init_args, query, proxy,
                   threads, nodes>>

\* CommandParser.set_disabled(command_name, value)
SetDisabled(name, value) ==
    LET r == set_disabled(Registry, name, value)
    IN  /\ Constructed
        /\ Install(r.S)
        /\ last' = Op("set_disabled", <<>>, 0, name, value, NoText,
                      [Quiet EXCEPT !.raised = r.raised], <<>>, r.ok)
        /\ UNCHANGED <<ignore_permission, unrestricted, init_args, query, proxy,
                   threads, nodes>>

\* CommandParser.add_command(text)
AddCommand(text) ==
    LET r == add_command(Registry, text)
    IN  /\ Constructed
        /\ Install(r.S)
        /\ last' = Op("add_command", <<>>, 0, new_data(text).name, FALSE, text,
                      [Quiet EXCEPT !.raised = r.raised], r.ret, r.ret # <<>>)
        /\ UNCHANGED <<ignore_permission, unrestricted, init_args, query, proxy,
                   threads, nodes>>

\* CommandParser.remove_command(name)
RemoveCommand(name) ==
    LET r == remove_command(Registry, name)
    IN  /\ Constructed
        /\ Install(r.S)
        /\ last' = Op("remove_command", <<>>, 0, name, FALSE, NoText,
                      [Quiet EXCEPT !.raised = r.raised], r.ret, r.ret # <<>>)
        /\ UNCHANGED <<ignore_permission, unrestricted, init_args, query, proxy,
                   threads, nodes>>

\* the host, on a Command in memory: Node(parent=command.children[child], **props),
\* a Node below a child of the command
AttachNode(name, child, props) ==
    /\ Constructed
    /\ dict_has(commands, name)
    /\ dict_has(commands[Lower(name)].children, child)
    /\ Node_raises(props) = "none"
    /\ commands' = [commands EXCEPT ![Lower(name)].children[Lower(child)].children =
                                       dict_set(@, props.name, Node(props))]
    /\ last' = Op("attach", <<>>, 0, name, FALSE, NoText, Quiet, <<>>, TRUE)
    /\ UNCHANGED <<manifest, manifest_prefix, manifest_empty, manifest_exists, files,
                   command_data, command_prefix, ignore_permission, unrestricted,
                   init_args, query, proxy, threads, nodes>>

\* CommandParser.prefix = value
SetPrefix(value) ==
    /\ Constructed
    /\ Install(set_prefix(Registry, value))
    /\ last' = Op("set_prefix", <<>>, 0, value, FALSE, NoText,
                  [Quiet EXCEPT !.raised = json_load(Registry)], <<>>,
                  json_load(Registry) = "none")
    /\ UNCHANGED <<ignore_permission, unrestricted, init_args, query, proxy,
                   threads, nodes>>

\* CommandSource.has_permission(perm_lvl) on a source of the given permission
HasPermission ==
    /\ ~query.asked
    /\ query' = [query EXCEPT !.asked = TRUE,
                              !.result = has_permission(query.permission, query.perm_lvl)]
    /\ UNCHANGED <<manifest, manifest_prefix, manifest_empty, manifest_exists, files,
                   commands, command_data,
                   command_prefix, ignore_permission, unrestricted, init_args,
                   last, proxy, threads, nodes>>

\* PrivateProxy(o, exclude_predicate, include_predicate), called by the host
MakeProxy ==
    /\ ~proxy.made
    /\ proxy' = [proxy EXCEPT
                    !.made = TRUE,
                    !.attrs = PrivateProxy(proxy.o, proxy.exclude_predicate,
                                           proxy.include_predicate)]
    /\ UNCHANGED <<manifest, manifest_prefix, manifest_empty, manifest_exists, files,
                   commands, command_data,
                   command_prefix, ignore_permission, unrestricted, init_args,
                   last, query, threads, nodes>>

----------------------------------------------------------------------------
(* Node objects.  The heap is a function from the identity of a Node to its *)
(* _parent (NoNode for None), its _name and its children, a                 *)
(* CaseInsensitiveDict kept as the sequence of its items in insertion       *)
(* order, each filed under the lower-case form of its key.                  *)

NoNode == 0

\* the frames a comparison or a rendering may nest before RecursionError is raised
RecursionLimit == 8

\* a Node that has not been constructed
Unmade ==
    [made |-> FALSE, parent |-> NoNode, name |-> <<>>, children |-> <<>>]

\* key in children
ch_has(ch, key) ==
    \E i \in DOMAIN ch : ch[i].key = Lower(key)

\* children[key]
ch_get(ch, key) ==
    LET i == CHOOSE j \in DOMAIN ch : ch[j].key = Lower(key)
    IN  ch[i].node

\* children.pop(key) of a key that is there
ch_pop(ch, key) ==
    SelectSeq(ch, LAMBDA item : item.key # Lower(key))

\* children.update({key: node}): a key that is there keeps its place
ch_update(ch, key, node) ==
    IF ch_has(ch, key)
    THEN [i \in DOMAIN ch |-> IF ch[i].key = Lower(key)
                              THEN [key |-> Lower(key), node |-> node] ELSE ch[i]]
    ELSE Append(ch, [key |-> Lower(key), node |-> node])

\* the outcome of a Node operation: the heap it leaves and what it raised
Left(H, raised) ==
    [H |-> H, raised |-> raised]

\* Node.__init__(parent=parent, name=name), with a keyword it does not know when
\* unexpected: the new object is filed in the children of its parent before the
\* keywords left over are looked at
Node_init(H, n, parent_, name, unexpected) ==
    LET born  == [H EXCEPT ![n] = [made |-> TRUE, parent |-> parent_, name |-> name,
                                   children |-> <<>>]]
        filed == IF parent_ # NoNode
                 THEN [born EXCEPT ![parent_].children = ch_update(@, name, n)]
                 ELSE born
    IN  IF ~unexpected THEN Left(filed, "none")
        ELSE IF parent_ # NoNode THEN Left(filed, "ValueError")
        ELSE Left(H, "ValueError")

\* a rename that leaves the parent's children as they are
set_name_unfiled(H, n, value) ==
    Left([H EXCEPT ![n].name = value], "none")

\* Node.name = value
set_name(H, n, value) ==
    LET p == H[n].parent
    IN  IF p = NoNode THEN Left([H EXCEPT ![n].name = value], "none")
        ELSE IF ~ch_has(H[p].children, H[n].name) THEN Left(H, "KeyError")
        ELSE LET moved == [H EXCEPT ![p].children =
                                        ch_update(ch_pop(@, H[n].name), value, n)]
             IN  Left([moved EXCEPT ![n].name = value], "none")

\* Node.parent = value
set_parent(H, n, value) ==
    LET p     == H[n].parent
        left  == IF p # NoNode
                 THEN [H EXCEPT ![p].children = ch_pop(@, H[n].name)]
                 ELSE H
        filed == IF value # NoNode
                 THEN [left EXCEPT ![value].children = ch_update(@, H[n].name, n)]
                 ELSE left
    IN  IF p # NoNode /\ ~ch_has(H[p].children, H[n].name) THEN Left(H, "KeyError")
        ELSE Left([filed EXCEPT ![n].parent = value], "none")

RECURSIVE add_children(_, _, _)
\* Node.add_children(*children): child.parent = self for each, in order
add_children(H, self, children) ==
    IF children = <<>> THEN Left(H, "none")
    ELSE LET done == set_parent(H, Head(children), self)
         IN  IF done.raised # "none" THEN done
             ELSE add_children(done.H, self, Tail(children))

RECURSIVE Node_eq(_, _, _, _)
\* Node.__eq__(self, other) for a Node other, depth frames deep:
\* other is self or (self.parent == other.parent and self.name == other.name)
Node_eq(H, self, other, depth) ==
    IF depth > RecursionLimit THEN "RecursionError"
    ELSE IF other = self THEN "True"
    ELSE LET sp      == H[self].parent
             op      == H[other].parent
             parents == IF sp = NoNode /\ op = NoNode THEN "True"
                        ELSE IF sp = NoNode \/ op = NoNode THEN "False"
                        ELSE Node_eq(H, sp, op, depth + 1)
         IN  IF parents = "RecursionError" THEN parents
             ELSE IF parents = "True" /\ H[self].name = H[other].name THEN "True"
             ELSE "False"

RootMark == <<"r", "o", "o", "t", ":", "_", "_">>

RECURSIVE Node_str(_, _, _)
\* Node.__str__, depth frames deep: the text, or RecursionError
Node_str(H, self, depth) ==
    IF depth > RecursionLimit THEN [text |-> <<>>, raised |-> "RecursionError"]
    ELSE IF H[self].parent # NoNode /\ H[self].parent # self
    THEN LET up == Node_str(H, H[self].parent, depth + 1)
         IN  IF up.raised # "none" THEN up
             ELSE [text |-> up.text \o <<"_", "_">> \o H[self].name, raised |-> "none"]
    ELSE [text |-> RootMark \o H[self].name, raised |-> "none"]

\* a reference handed to remove_children: a Node or a str
NodeRef(n) ==
    [kind |-> "Node", node |-> n, name |-> <<>>]

StrRef(name) ==
    [kind |-> "str", node |-> NoNode, name |-> name]

RECURSIVE in_values(_, _, _)
\* child in self.children.values() for a Node child: v is child or v == child over
\* the values in order
in_values(H, ch, child) ==
    IF ch = <<>> THEN "False"
    ELSE LET same == Node_eq(H, Head(ch).node, child, 1)
         IN  IF same = "False" THEN in_values(H, Tail(ch), child) ELSE same

RECURSIVE remove_children(_, _, _)
\* Node.remove_children(*children)
remove_children(H, self, children) ==
    IF children = <<>> THEN Left(H, "none")
    ELSE LET child == Head(children)
             ch    == H[self].children
             found == IF child.kind = "Node" THEN in_values(H, ch, child.node)
                      ELSE "False"
             done  == IF found = "RecursionError" THEN Left(H, found)
                      ELSE IF found = "True" THEN set_parent(H, child.node, NoNode)
                      ELSE IF child.kind = "Node" THEN Left(H, "AttributeError")
                      ELSE IF ch_has(ch, child.name)
                      THEN set_parent(H, ch_get(ch, child.name), NoNode)
                      ELSE Left(H, "none")
         IN  IF done.raised # "none" THEN done
             ELSE remove_children(done.H, self, Tail(children))

----------------------------------------------------------------------------
(* The mutation operations step by step, as threads of the host run them.   *)
(* A thread reads commands.json, opens it to write, which truncates it,     *)
(* dumps what it read with its own change, and finishes in memory.          *)

\* a call of the host: the operation and its arguments
Call(op, name, value, prefix, text) ==
    [op |-> op, name |-> name, value |-> value, prefix |-> prefix, text |-> text]

\* a thread that is to make the call
Thread(c) ==
    [call_ |-> c, pc |-> "start", seen |-> <<>>, seen_prefix |-> <<>>,
     raced |-> FALSE, raised |-> "none"]

\* the name of the manifest entry the call is about
target(c) ==
    IF c.op = "add_command" THEN new_data(c.text).name ELSE c.name

\* the thread is between its read of the manifest and its return
inside(t) ==
    threads[t].pc \notin {"start", "done"}

\* a dump that writes back the command list as it was read
written_as_read(c, seen) ==
    seen

\* data.commands = list(commands.values()): the command list the call dumps, from
\* the one it read
written(c, seen) ==
    CASE c.op = "set_disabled" ->
             by_name_set(seen, c.name,
                         [by_name_get(seen, c.name) EXCEPT !.disabled = c.value])
      [] c.op = "remove_command" -> by_name_pop(seen, c.name)
      [] c.op = "add_command" ->
             by_name_set(seen, new_data(c.text).name, new_data(c.text))
      [] OTHER -> seen

\* the thread ends its call
ended(t, raised) ==
    [threads EXCEPT ![t].pc = "done", ![t].raised = raised]

\* the first step of a call: commands.json is opened and read; set_disabled and the
\* prefix setter assign in memory here, reload() runs whole
ThreadRead(t) ==
    LET c   == threads[t].call_
        err    == json_load(Registry)
        d      == by_name(manifest)
        began  == [threads EXCEPT ![t].raced = \E u \in DOMAIN threads : u # t /\ inside(u)]
        assign == IF c.op = "set_prefix"
                  THEN [Registry EXCEPT !.command_prefix = c.prefix]
                  ELSE Registry
        goes   == [began EXCEPT ![t].pc = "truncate", ![t].seen = d,
                                ![t].seen_prefix = manifest_prefix]
        stops(raised) == [began EXCEPT ![t].pc = "done", ![t].raised = raised]
    IN  /\ threads[t].pc = "start"
        /\ IF c.op = "reload"
           THEN Install(reload(Registry)) /\ threads' = stops(err)
           ELSE IF err # "none"
           THEN Install(assign) /\ threads' = stops(err)
           ELSE IF c.op # "set_prefix" /\ not_overridable(d, target(c))
           THEN Install(Registry) /\ threads' = stops("none")
           ELSE IF c.op = "set_disabled" /\ ~by_name_has(d, c.name)
           THEN Install(Registry) /\ threads' = stops("KeyError")
           ELSE IF c.op = "set_disabled" /\ ~dict_has(commands, c.name)
           THEN Install(Registry) /\ threads' = stops("AttributeError")
           ELSE IF c.op = "set_disabled"
           THEN /\ Install([Registry EXCEPT
                               !.commands[Lower(c.name)].disabled = c.value])
                /\ threads' = goes
           ELSE Install(assign) /\ threads' = goes
        /\ UNCHANGED <<ignore_permission, unrestricted, init_args, last, query, proxy,
                       nodes>>

\* json_path.open(mode='w'): the manifest is truncated; add_command opens the script
\* file to write as well, which creates it empty
ThreadTruncate(t) ==
    LET c  == threads[t].call_
        empty == truncated(Registry)
        name  == target(c)
    IN  /\ threads[t].pc = "truncate"
        /\ IF c.op # "add_command"
           THEN Install(empty) /\ threads' = [threads EXCEPT ![t].pc = "write"]
           ELSE IF ~opens_to_write(Registry, name)
           THEN Install(empty) /\ threads' = ended(t, "FileNotFoundError")
           ELSE /\ Install([empty EXCEPT
                               !.files = [f \in (DOMAIN files) \cup {name} |->
                                             IF f = name THEN Script("ok", <<>>)
                                             ELSE files[f]]])
                /\ threads' = [threads EXCEPT ![t].pc = "write"]
        /\ UNCHANGED <<ignore_permission, unrestricted, init_args, last, query, proxy,
                       nodes>>

\* json.dump(data, file) and the end of the with block: the manifest holds what the
\* thread read with its change; add_command writes the script as well
ThreadWrite(t) ==
    LET th    == threads[t]
        c  == th.call_
        wrote == [Registry EXCEPT
                    !.manifest = written(c, th.seen),
                    !.manifest_prefix = IF c.op = "set_prefix" THEN c.prefix
                                        ELSE th.seen_prefix,
                    !.manifest_empty = FALSE]
    IN  /\ th.pc = "write"
        /\ IF c.op = "add_command"
           THEN Install([wrote EXCEPT
                           !.files[target(c)] =
                               Script(c.text.body, stored_entry(c.text))])
           ELSE Install(wrote)
        /\ threads' = [threads EXCEPT
                          ![t].pc = IF c.op \in {"add_command", "remove_command"}
                                    THEN "finish" ELSE "done"]
        /\ UNCHANGED <<ignore_permission, unrestricted, init_args, last, query, proxy,
                       nodes>>

\* the end of remove_command (the script file is unlinked, memory follows) and of
\* add_command (command_data and the new Command are assigned)
ThreadFinish(t) ==
    LET th      == threads[t]
        c    == th.call_
        name    == target(c)
        list    == written(c, th.seen)
        removed == by_name_has(th.seen, name) \/ name \in DOMAIN files
        gone    == [Registry EXCEPT
                      !.files = [f \in (DOMAIN files) \ {name} |-> files[f]]]
        made    == Command([Registry EXCEPT !.command_data = list], new_data(c.text))
    IN  /\ th.pc = "finish"
        /\ IF c.op = "remove_command"
           THEN Install(IF removed
                        THEN [gone EXCEPT !.command_data = list,
                                          !.commands = dict_pop(commands, name)]
                        ELSE gone)
           ELSE Install([made.S EXCEPT
                           !.commands = dict_set(made.S.commands, name, made.cmd)])
        /\ threads' = ended(t, "none")
        /\ UNCHANGED <<ignore_permission, unrestricted, init_args, last, query, proxy,
                       nodes>>

\* an operation on the Nodes of the host, as one record
NodeOp(op, self, other, value, children, unexpected, raised, result) ==
    [op |-> op, self |-> self, other |-> other, value |-> value,
     children |-> children, unexpected |-> unexpected, raised |-> raised,
     result |-> result]

\* the host's Nodes change, the registry does not
NodeStep(H) ==
    /\ nodes' = H
    /\ UNCHANGED <<manifest, manifest_prefix, manifest_empty, manifest_exists, files,
                   commands, command_data, command_prefix, ignore_permission,
                   unrestricted, init_args, query, proxy, threads>>

\* Node(parent=parent, name=name) or Node(parent=parent, name=name, unexpected=...):
\* the next object the host constructs
NewNode(parent_, name, unexpected) ==
    \E n \in DOMAIN nodes :
        LET r == Node_init(nodes, n, parent_, name, unexpected)
        IN  /\ ~nodes[n].made
            /\ \A m \in DOMAIN nodes : m < n => nodes[m].made
            /\ parent_ # NoNode => nodes[parent_].made
            /\ NodeStep(r.H)
            /\ last' = NodeOp("Node", n, parent_, name, <<>>, unexpected, r.raised, <<>>)

\* node.name = value
SetName(n, value) ==
    LET r == set_name(nodes, n, value)
    IN  /\ nodes[n].made
        /\ NodeStep(r.H)
        /\ last' = NodeOp("name", n, NoNode, value, <<>>, FALSE, r.raised, <<>>)

\* node.parent = value
SetParent(n, value) ==
    LET r == set_parent(nodes, n, value)
    IN  /\ nodes[n].made
        /\ value # NoNode => nodes[value].made
        /\ NodeStep(r.H)
        /\ last' = NodeOp("parent", n, value, <<>>, <<>>, FALSE, r.raised, <<>>)

\* node.add_children(*children)
AddChildren(n, children) ==
    LET r == add_children(nodes, n, children)
    IN  /\ nodes[n].made
        /\ \A i \in DOMAIN children : nodes[children[i]].made
        /\ NodeStep(r.H)
        /\ last' = NodeOp("add_children", n, NoNode, <<>>, children, FALSE, r.raised, <<>>)

\* node.remove_children(*children)
RemoveChildren(n, children) ==
    LET r == remove_children(nodes, n, children)
    IN  /\ nodes[n].made
        /\ \A i \in DOMAIN children :
               children[i].kind = "Node" => nodes[children[i].node].made
        /\ NodeStep(r.H)
        /\ last' = NodeOp("remove_children", n, NoNode, <<>>, children, FALSE,
                          r.raised, <<>>)

\* a == b
Eq(a, b) ==
    LET r == Node_eq(nodes, a, b, 1)
    IN  /\ nodes[a].made /\ nodes[b].made
        /\ NodeStep(nodes)
        /\ last' = NodeOp("eq", a, b, <<>>, <<>>, FALSE,
                          IF r = "RecursionError" THEN r ELSE "none", r)

\* str(node)
Str(n) ==
    LET r == Node_str(nodes, n, 1)
    IN  /\ nodes[n].made
        /\ NodeStep(nodes)
        /\ last' = NodeOp("str", n, NoNode, <<>>, <<>>, FALSE, r.raised, r.text)

----------------------------------------------------------------------------
(* Inputs                                                                  *)

NameA == <<"a">>
NameB == <<"b">>
NameC == <<"c">>
ArgN == <<"n">>
ArgX == <<"x">>

\* the commandPrefix of the manifest the registry is constructed on
Prefix == <<"!">>

Perms == (-1)..MaxPerm

Callers == (-1)..MaxCaller

RECURSIVE SeqsUpTo(_, _)
\* the sequences over S of length at most n
SeqsUpTo(S, n) ==
    IF n = 0 THEN {<<>>}
    ELSE LET shorter == SeqsUpTo(S, n - 1)
         IN  shorter \cup {Append(q, x) : q \in shorter, x \in S}

\* a leaf child entry
Leaf(name, permission, disabled) ==
    [name |-> name, permission |-> permission, disabled |-> disabled, children |-> <<>>]

\* the children lists of the manifests execution is explored on: none, or a child
\* n (x names no node)
Forests ==
    {<<>>} \cup {<<Leaf(ArgN, pn, dn)>> : pn \in Perms, dn \in BOOLEAN}

Entry(name, permission, function, children, overridable, disabled) ==
    [name |-> name, usage |-> <<>>, description |-> <<>>, permission |-> permission,
     function |-> function, children |-> children, overridable |-> overridable,
     disabled |-> disabled]

\* CommandParser.__init__ before its call of reload(): the fields as first assigned,
\* on a directory holding the manifest m and the script files f
New(m, f) ==
    [manifest        |-> m,
     manifest_prefix |-> Prefix,
     manifest_empty  |-> FALSE,
     manifest_exists |-> TRUE,
     files           |-> f,
     commands        |-> EmptyDict,
     command_data    |-> <<>>,
     command_prefix  |-> <<"/">>]

\* __init__ before its call of reload() on a directory that holds the script files f
\* and no commands.json
NoManifest(f) ==
    [New(<<>>, f) EXCEPT !.manifest_exists = FALSE, !.manifest_prefix = <<>>]

Started ==
    Op("new", <<>>, 0, <<>>, FALSE, NoText, Quiet, <<>>, TRUE)

\* script files: b has a good one; a has none, a good one or a broken one
ProtocolFiles ==
    {(NameB :> Script("ok", CommandDef))}
    \cup {(NameB :> Script("ok", CommandDef)) @@ (NameA :> Script(k, CommandDef)) :
             k \in {"ok", "broken"}}

\* manifests of the mutation protocol: a with or without a script to load, overridable
\* or not, with or without a plain command b after it
ProtocolManifests ==
    LET as == {Entry(NameA, 1, f, <<>>, o, FALSE) : f \in BOOLEAN, o \in BOOLEAN}
        b  == Entry(NameB, 0, TRUE, <<>>, TRUE, FALSE)
    IN  {<<>>, <<b>>} \cup {<<a>> : a \in as} \cup {<<a, b>> : a \in as}

\* scripts handed to add_command: no top-level def, or a def of a or c whose body
\* compiles or does not
Texts ==
    {NoText} \cup
    {[func_name |-> n, name |-> <<>>, usage |-> <<>>, description |-> <<>>,
      permission |-> str(1), children |-> NoChildrenLine, kwargs |-> NoKwargs,
      no_colon |-> {}, body |-> b] :
        n \in {NameA, NameC}, b \in {"ok", "broken"}}

\* working strings of the mutation protocol
ProtocolStrings ==
    {NameA, Prefix, Prefix \o NameA \o <<" ", TagChar>>}
    \cup {Prefix \o n : n \in {NameA, NameB, NameC}}

\* working strings execution is explored on: the prefix, the command name and up to
\* MaxArgs argument tokens
ExecStrings ==
    {pre \o join(<<n>> \o args, delimiting_str) :
        pre \in {Prefix}, n \in {NameA},
        args \in SeqsUpTo({ArgN, ArgX}, MaxArgs)}

Init ==
    \E m \in ProtocolManifests, f \in ProtocolFiles, here \in BOOLEAN :
        /\ Holds(IF here THEN New(m, f) ELSE NoManifest(f))
        /\ ignore_permission = FALSE
        /\ unrestricted = resolve_unrestricted(DefaultArgs)
        /\ init_args = DefaultArgs
        /\ last = Started
        /\ threads = NoThreads
        /\ nodes = NoNodes
        /\ query = NoQuery
        /\ proxy = NoProxy

\* __init__ ends with reload(); the host calls the other operations on the registry
\* it has got
Next ==
    \/ Reload
    \/ \E ws \in ProtocolStrings, c \in {0, 1} : Parse(ws, c, NoExtras)
    \/ \E n \in {NameA, NameB, NameC}, v \in BOOLEAN : SetDisabled(n, v)
    \/ \E t \in Texts : AddCommand(t)
    \/ \E n \in {NameA, NameB, NameC} : RemoveCommand(n)

\* the registry under every operation of its runtime surface
Spec == Init /\ [][Next]_vars

InitExec ==
    \E p \in Perms, d \in BOOLEAN, ch \in Forests, ig \in BOOLEAN :
        /\ Holds(New(<<Entry(NameA, p, TRUE, ch, TRUE, d)>>, (NameA :> Script("ok", CommandDef))))
        /\ ignore_permission = ig
        /\ unrestricted = resolve_unrestricted(DefaultArgs)
        /\ init_args = DefaultArgs
        /\ last = Started
        /\ threads = NoThreads
        /\ nodes = NoNodes
        /\ query = NoQuery
        /\ proxy = NoProxy

NextExec ==
    \/ Reload
    \/ \E ws \in ExecStrings, c \in Callers : Parse(ws, c, NoExtras)
    \/ \E v \in BOOLEAN : SetDisabled(NameA, v)
    \/ AttachNode(NameA, ArgN, Leaf(ArgN, MaxPerm, FALSE))

\* dispatch and execution over permission trees
SpecExec == InitExec /\ [][NextExec]_vars

InitPerm ==
    /\ Holds(New(<<>>, <<>>))
    /\ ignore_permission = FALSE
    /\ unrestricted = resolve_unrestricted(DefaultArgs)
    /\ init_args = DefaultArgs
    /\ last = Started
    /\ threads = NoThreads
    /\ nodes = NoNodes
    /\ proxy = NoProxy
    /\ query \in [permission : (-MaxLevel)..MaxLevel, perm_lvl : (-MaxLevel)..MaxLevel,
                  asked : {FALSE}, result : {FALSE}]

NextPerm ==
    HasPermission

\* has_permission over a range of caller and required levels
SpecPerm == InitPerm /\ [][NextPerm]_vars

NameUpperA == <<"A">>

\* what the script of a command does when it is called
CallKinds ==
    {"ok", "none", "empty", "usage", "usage_empty", "error"}

\* the prefixes the registry is given: one character, none, two characters
Prefixes ==
    {Prefix, <<>>, <<"!", "#">>}

\* working strings of the dispatch: a prefix, a token in either case or the name of no
\* command, and no argument or one
CallStrings ==
    {pre \o join(<<t>> \o args, delimiting_str) :
        pre \in Prefixes, t \in {NameA, NameUpperA, NameB}, args \in {<<>>, <<ArgN>>}}

InitCall ==
    \E name \in {NameA, NameUpperA}, kind \in CallKinds :
        /\ Holds(New(<<Entry(name, 1, TRUE, <<Leaf(ArgN, 0, FALSE)>>, TRUE, FALSE)>>,
                     (name :> Script(kind, CommandDef))))
        /\ ignore_permission = FALSE
        /\ unrestricted = resolve_unrestricted(DefaultArgs)
        /\ init_args = DefaultArgs
        /\ last = Started
        /\ threads = NoThreads
        /\ nodes = NoNodes
        /\ query = NoQuery
        /\ proxy = NoProxy

NextCall ==
    \/ Reload
    \/ \E ws \in CallStrings, c \in {0, 1} : Parse(ws, c, NoExtras)
    \/ \E value \in Prefixes : SetPrefix(value)

\* dispatch to scripts that return, return nothing or raise, under changing prefixes
SpecCall == InitCall /\ [][NextCall]_vars

\* an object of the host: a plain value, a Path, a private value, and views that are
\* PrivateProxy objects already
host_object ==
    (<<"d", "ata">> :> Plain) @@ (<<"h", "ome">> :> PathValue)
    @@ (<<"_", "token">> :> Plain) @@ (<<"v", "iew">> :> ProxyValue)
    @@ (<<"_", "view">> :> ProxyValue)

\* a pathlib.Path handed over as it is
path_object ==
    (<<"n", "ame">> :> Plain) @@ (<<"p", "arent">> :> PathValue)
    @@ (<<"_", "raw_paths">> :> Plain)

\* the named parameters the host adds to a parse
HostExtras ==
    {NoExtras, ("extra" :> host_object),
     ("extra" :> host_object) @@ ("where" :> path_object)}

\* the arguments of __init__ and the interpreter: restricted loading needs
\* RestrictedPython, which is imported on CPython only
SandboxArgs ==
    {[unrestricted |-> u, impl |-> i] :
        u \in {"None", "True", "False"}, i \in {"CPython", "PyPy"}}
    \ {[unrestricted |-> "False", impl |-> "PyPy"]}

InitSandbox ==
    \E args \in SandboxArgs, kind \in {"ok", "usage", "none"}, ig \in BOOLEAN :
        /\ Holds(New(<<Entry(NameA, 1, TRUE, <<Leaf(ArgN, 0, FALSE)>>, TRUE, FALSE)>>,
                     (NameA :> Script(kind, CommandDef))))
        /\ ignore_permission = ig
        /\ unrestricted = resolve_unrestricted(args)
        /\ init_args = args
        /\ last = Started
        /\ threads = NoThreads
        /\ nodes = NoNodes
        /\ query = NoQuery
        /\ proxy = NoProxy

NextSandbox ==
    \/ Reload
    \/ \E ws \in {Prefix \o NameA, Prefix \o NameA \o <<" ">> \o ArgN, Prefix \o NameB},
          c \in {0, 1}, kwargs \in HostExtras : Parse(ws, c, kwargs)

\* what the executable is handed, restricted and unrestricted
SpecSandbox == InitSandbox /\ [][NextSandbox]_vars

\* the attribute names of the objects PrivateProxy is explored on: a public one, one
\* that starts with an underscore, and a second public one
ProxyAttrs ==
    {<<"a", "ttr">>, <<"_", "attr">>, <<"p", "ath">>}

\* the objects: every attribute holds a plain value or a Path
ProxyObjects ==
    [ProxyAttrs -> {Plain, PathValue}]

\* the predicates over the attributes of o: by the name, for every set of names, and
\* by the value (it is a Path)
ProxyPredicates(o) ==
    {[x \in (DOMAIN o) \X Kinds |-> x[1] \in N] : N \in SUBSET DOMAIN o}
    \cup {[x \in (DOMAIN o) \X Kinds |-> x[2] = PathValue]}

InitProxy ==
    /\ Holds(New(<<>>, <<>>))
    /\ ignore_permission = FALSE
    /\ unrestricted = resolve_unrestricted(DefaultArgs)
    /\ init_args = DefaultArgs
    /\ last = Started
    /\ threads = NoThreads
    /\ nodes = NoNodes
    /\ query = NoQuery
    /\ \E o \in ProxyObjects :
           \E ex \in ProxyPredicates(o), inc \in ProxyPredicates(o) :
               proxy = [NoProxy EXCEPT !.o = o,
                                       !.exclude_predicate = ex,
                                       !.include_predicate = inc]

NextProxy ==
    MakeProxy

\* PrivateProxy over objects and predicates
SpecProxy == InitProxy /\ [][NextProxy]_vars


\* a name with a path separator in it
NameSlash == <<"a", "/", "c">>

\* the names scripts give their top-level function: the convention name, a plain
\* name, a name with an underscore
FuncNames ==
    {CommandDef, <<"f">>, <<"f", "_", "g">>}

\* scripts with a metadata comment header above their function: # Name, # Usage,
\* # Description and # Permission lines, each with a value
HeaderTexts ==
    {[func_name |-> fn, name |-> n, usage |-> u, description |-> d,
      permission |-> str(p), children |-> NoChildrenLine, kwargs |-> NoKwargs,
      no_colon |-> {}, body |-> "ok"] :
        fn \in FuncNames, n \in {NameA, NameSlash},
        u \in {<<"u">>, <<"u", " ", "[", "n", "]">>},
        d \in {<<"d">>, <<"d", ".">>}, p \in {1, MaxLevel}}

InitAdd ==
    \E d \in BOOLEAN :
        /\ Holds(New(<<Entry(NameB, 0, TRUE, <<>>, TRUE, d)>>,
                     (NameB :> Script("ok", CommandDef))))
        /\ ignore_permission = FALSE
        /\ unrestricted = resolve_unrestricted(DefaultArgs)
        /\ init_args = DefaultArgs
        /\ last = Started
        /\ threads = NoThreads
        /\ nodes = NoNodes
        /\ query = NoQuery
        /\ proxy = NoProxy

NextAdd ==
    \/ Reload
    \/ \E t \in HeaderTexts : AddCommand(t)
    \/ \E c \in {0, MaxLevel} : Parse(Prefix \o NameA, c, NoExtras)
    \/ RemoveCommand(NameA)
    \/ \E value \in {Prefix, <<"#">>} : SetPrefix(value)

\* scripts with a metadata header added to a registry, reloaded and called
SpecAdd == InitAdd /\ [][NextAdd]_vars

\* the calls two threads of the host make, each about a name or a field of its own
RaceCalls ==
    {Call("set_disabled", NameA, TRUE, <<>>, NoText),
     Call("remove_command", NameB, FALSE, <<>>, NoText),
     Call("set_prefix", <<>>, FALSE, <<"#">>, NoText),
     Call("add_command", <<>>, FALSE, <<>>,
          [func_name |-> NameC, name |-> <<>>, usage |-> <<>>, description |-> <<>>,
           permission |-> str(1), children |-> NoChildrenLine, kwargs |-> NoKwargs,
           no_colon |-> {}, body |-> "ok"]),
     Call("reload", <<>>, FALSE, <<>>, NoText)}

\* a registry constructed on commands a and b, and two threads about to call it
InitRace ==
    \E c1 \in RaceCalls, c2 \in RaceCalls, da \in BOOLEAN :
        /\ c1 # c2
        /\ Holds(reload(New(<<Entry(NameA, 1, TRUE, <<>>, TRUE, da),
                               Entry(NameB, 0, TRUE, <<>>, TRUE, FALSE)>>,
                             (NameA :> Script("ok", CommandDef))
                                 @@ (NameB :> Script("ok", CommandDef)))))
        /\ ignore_permission = FALSE
        /\ unrestricted = resolve_unrestricted(DefaultArgs)
        /\ init_args = DefaultArgs
        /\ last = Op("reload", <<>>, 0, <<>>, FALSE, NoText, Quiet, <<>>, TRUE)
        /\ query = NoQuery
        /\ proxy = NoProxy
        /\ threads = <<Thread(c1), Thread(c2)>>
        /\ nodes = NoNodes

NextRace ==
    \E t \in {1, 2} :
        \/ ThreadRead(t)
        \/ ThreadTruncate(t)
        \/ ThreadWrite(t)
        \/ ThreadFinish(t)

\* two threads of the host in the operations of one registry, interleaved step by step
SpecRace == InitRace /\ [][NextRace]_vars

\* the Nodes the host may construct
NodeIds == 1..MaxNodes

NodeNames == {<<"x">>, <<"y">>}

\* the references remove_children is called with: a Node, or a name
Refs ==
    {NodeRef(n) : n \in NodeIds} \cup {StrRef(name) : name \in NodeNames}

\* the registry of a host that works on Nodes of its own
InitNode ==
    /\ Holds(New(<<>>, <<>>))
    /\ ignore_permission = FALSE
    /\ unrestricted = resolve_unrestricted(DefaultArgs)
    /\ init_args = DefaultArgs
    /\ last = Started
    /\ query = NoQuery
    /\ proxy = NoProxy
    /\ threads = NoThreads
    /\ nodes = [n \in NodeIds |-> Unmade]

NextNode ==
    \/ \E q \in {NoNode} \cup NodeIds, name \in NodeNames, u \in BOOLEAN :
           NewNode(q, name, u)
    \/ \E n \in NodeIds, value \in NodeNames : SetName(n, value)
    \/ \E n \in NodeIds, value \in {NoNode} \cup NodeIds : SetParent(n, value)
    \/ \E n \in NodeIds, children \in SeqsUpTo(NodeIds, MaxRefs) \ {<<>>} :
           AddChildren(n, children)

\* construction, renaming, parent assignment and add_children on up to MaxNodes Nodes
SpecNode == InitNode /\ [][NextNode]_vars

NextRemove ==
    \/ \E q \in {NoNode} \cup NodeIds, name \in NodeNames : NewNode(q, name, FALSE)
    \/ \E n \in NodeIds, children \in SeqsUpTo(Refs, MaxRefs) \ {<<>>} :
           RemoveChildren(n, children)

\* Nodes constructed under their parents, and remove_children
SpecRemove == InitNode /\ [][NextRemove]_vars

NextWalk ==
    \/ \E name \in NodeNames : NewNode(NoNode, name, FALSE)
    \/ \E n \in NodeIds, value \in {NoNode} \cup NodeIds : SetParent(n, value)
    \/ \E a \in NodeIds, b \in NodeIds : Eq(a, b)
    \/ \E n \in NodeIds : Str(n)

\* Nodes given parents, themselves included, compared and rendered
SpecWalk == InitNode /\ [][NextWalk]_vars

\* a parent and two children under names of their own
Family(pn, an, bn) ==
    [n \in NodeIds |->
        IF n = 1 THEN [made |-> TRUE, parent |-> NoNode, name |-> pn,
                       children |-> <<[key |-> Lower(an), node |-> 2],
                                      [key |-> Lower(bn), node |-> 3]>>]
        ELSE IF n = 2 THEN [made |-> TRUE, parent |-> 1, name |-> an, children |-> <<>>]
        ELSE IF n = 3 THEN [made |-> TRUE, parent |-> 1, name |-> bn, children |-> <<>>]
        ELSE Unmade]

RenameNames == NodeNames \cup {<<"z">>, <<"Y">>}

InitRename ==
    /\ Holds(New(<<>>, <<>>))
    /\ ignore_permission = FALSE
    /\ unrestricted = resolve_unrestricted(DefaultArgs)
    /\ init_args = DefaultArgs
    /\ last = Started
    /\ query = NoQuery
    /\ proxy = NoProxy
    /\ threads = NoThreads
    /\ \E pn \in NodeNames, an \in NodeNames, bn \in NodeNames :
           an # bn /\ nodes = Family(pn, an, bn)

NextRename ==
    \/ \E n \in NodeIds, value \in RenameNames : SetName(n, value)
    \/ \E n \in NodeIds : Str(n)

\* renames, and nothing else, of a parent and its two children
SpecRename == InitRename /\ [][NextRename]_vars

\* a protected entry a, with or without a script to load, and calls that name it in
\* either letter case
InitCase ==
    \E f \in BOOLEAN, d \in BOOLEAN :
        /\ Holds(New(<<Entry(NameA, 1, f, <<>>, FALSE, d)>>,
                     (NameA :> Script("ok", CommandDef))))
        /\ ignore_permission = FALSE
        /\ unrestricted = resolve_unrestricted(DefaultArgs)
        /\ init_args = DefaultArgs
        /\ last = Started
        /\ threads = NoThreads
        /\ nodes = NoNodes
        /\ query = NoQuery
        /\ proxy = NoProxy

\* scripts that define a function named in either letter case
CaseTexts ==
    {[func_name |-> n, name |-> <<>>, usage |-> <<>>, description |-> <<>>,
      permission |-> str(p), children |-> NoChildrenLine, kwargs |-> NoKwargs,
      no_colon |-> {}, body |-> "ok"] : n \in {NameA, NameUpperA}, p \in {0, 1}}

NextCase ==
    \/ Reload
    \/ \E t \in CaseTexts : AddCommand(t)
    \/ \E n \in {NameA, NameUpperA} : RemoveCommand(n)
    \/ \E n \in {NameA, NameUpperA}, v \in BOOLEAN : SetDisabled(n, v)
    \/ \E n \in {NameA, NameUpperA}, c \in {0, 1} : Parse(Prefix \o n, c, NoExtras)

\* the mutation operations on names that differ from a protected entry in letter case
SpecCase == InitCase /\ [][NextCase]_vars

\* a manifest child entry with the keys a node takes
PlainChild == Leaf(ArgN, 1, FALSE)

\* child entries of the command entry shape: the keys a node takes alone, a
\* function key, an overridable key, children of its own
ChildShapes ==
    {PlainChild,
     ("function" :> FALSE) @@ PlainChild,
     ("overridable" :> TRUE) @@ PlainChild,
     [PlainChild EXCEPT !.children = <<Leaf(ArgX, 0, FALSE)>>]}

InitShape ==
    \E child \in ChildShapes, f \in BOOLEAN :
        /\ Holds(New(<<Entry(NameB, 0, TRUE, <<>>, TRUE, FALSE),
                       Entry(NameA, 0, f, <<child>>, TRUE, FALSE)>>,
                     (NameA :> Script("ok", CommandDef)) @@
                     (NameB :> Script("ok", CommandDef))))
        /\ ignore_permission = FALSE
        /\ unrestricted = resolve_unrestricted(DefaultArgs)
        /\ init_args = DefaultArgs
        /\ last = Started
        /\ threads = NoThreads
        /\ nodes = NoNodes
        /\ query = NoQuery
        /\ proxy = NoProxy

\* scripts added with their children given as a keyword argument
ShapeTexts ==
    {[func_name |-> NameC, name |-> <<>>, usage |-> <<>>, description |-> <<>>,
      permission |-> <<>>, children |-> NoChildrenLine,
      kwargs |-> ("children" :> <<child>>), no_colon |-> {}, body |-> "ok"] :
        child \in ChildShapes}

NextShape ==
    \/ Reload
    \/ \E t \in ShapeTexts : AddCommand(t)
    \/ \E n \in {NameA, NameB, NameC} : RemoveCommand(n)
    \/ \E n \in {NameA, NameB}, v \in BOOLEAN : SetDisabled(n, v)
    \/ \E value \in {Prefix, <<"#">>} : SetPrefix(value)
    \/ \E n \in {NameA, NameC}, c \in {0, 1} :
           Parse(Prefix \o n \o <<" ">> \o ArgN, c, NoExtras)

\* a registry whose manifest holds child entries of every shape
SpecShape == InitShape /\ [][NextShape]_vars

\* keyword arguments to add_command: none, one of the five with an empty or a
\* non-empty value, or all five
KwargSets ==
    {NoKwargs, ("name" :> NameA)} \cup
    {("usage" :> v) : v \in {<<>>, <<"v">>}} \cup
    {("description" :> v) : v \in {<<>>, <<"e">>}} \cup
    {("permission" :> v) : v \in {0, 1}} \cup
    {("children" :> v) : v \in {<<>>, <<Leaf(ArgX, 0, FALSE)>>}} \cup
    {[name |-> NameA, usage |-> <<"v">>, description |-> <<"e">>, permission |-> 1,
      children |-> <<Leaf(ArgX, 0, FALSE)>>]}

\* scripts with every header line or with none, added with keyword arguments
KwargTexts ==
    {[func_name |-> NameA, name |-> <<>>, usage |-> <<>>, description |-> <<>>,
      permission |-> <<>>, children |-> NoChildrenLine, kwargs |-> kw, no_colon |-> {},
      body |-> "ok"] :
        kw \in KwargSets} \cup
    {[func_name |-> NameA, name |-> NameC, usage |-> <<"u">>, description |-> <<"d">>,
      permission |-> str(MaxLevel),
      children |-> [kind |-> "list", list |-> <<PlainChild>>],
      kwargs |-> kw, no_colon |-> {},
      body |-> "ok"] : kw \in KwargSets}

NextKwargs ==
    \/ Reload
    \/ \E t \in KwargTexts : AddCommand(t)
    \/ \E n \in {NameA, NameC}, arg \in {ArgN, ArgX}, c \in {0, 1, MaxLevel} :
           Parse(Prefix \o n \o <<" ">> \o arg, c, NoExtras)
    \/ \E n \in {NameA, NameC} : RemoveCommand(n)

\* scripts added with keyword arguments next to their header, reloaded and called
SpecKwargs == InitAdd /\ [][NextKwargs]_vars

\* the # Children line of a header: none, a list, text that is no JSON, JSON that
\* is no list
ChildrenLines ==
    {NoChildrenLine,
     [kind |-> "list", list |-> <<PlainChild>>],
     [kind |-> "unparsable", list |-> <<>>],
     [kind |-> "scalar", list |-> <<>>]}

\* texts with or without a top-level def under a header whose Permission is a number
\* or a word, whose Children are any of the above and whose Usage line has a ':' or
\* has none
DefectTexts ==
    {[func_name |-> fn, name |-> <<>>, usage |-> <<"u">>, description |-> <<>>,
      permission |-> p, children |-> c, kwargs |-> NoKwargs, no_colon |-> nc,
      body |-> "ok"] :
        fn \in {<<>>, NameA}, p \in {str(MaxLevel), <<"x">>}, c \in ChildrenLines,
        nc \in {{}, {"description"}}}

NextHeader ==
    \/ Reload
    \/ \E t \in DefectTexts : AddCommand(t)
    \/ \E arg \in {ArgN, ArgX}, c \in {0, 1, MaxLevel} :
           Parse(Prefix \o NameA \o <<" ">> \o arg, c, NoExtras)
    \/ \E n \in {NameA, NameB} : RemoveCommand(n)
    \/ \E n \in {NameA, NameB}, v \in BOOLEAN : SetDisabled(n, v)

\* texts with defective headers, or with no function at all, handed to add_command
SpecHeader == InitAdd /\ [][NextHeader]_vars

NextTree ==
    \/ \E q \in {NoNode} \cup NodeIds, name \in NodeNames, u \in BOOLEAN :
           NewNode(q, name, u)
    \/ \E n \in NodeIds, value \in NodeNames \cup {<<"Y">>} : SetName(n, value)
    \/ \E n \in NodeIds, value \in {NoNode} \cup NodeIds : SetParent(n, value)
    \/ \E n \in NodeIds, child \in NodeIds : AddChildren(n, <<child>>)
    \/ \E n \in NodeIds, child \in Refs : RemoveChildren(n, <<child>>)

\* every operation that builds or changes the tree, one node or name at a time
SpecTree == InitNode /\ [][NextTree]_vars

\* two roots, each with one child under a name of its own
Twins(pn, qn, an, bn) ==
    <<[made |-> TRUE, parent |-> NoNode, name |-> pn,
       children |-> <<[key |-> Lower(an), node |-> 3]>>],
      [made |-> TRUE, parent |-> NoNode, name |-> qn,
       children |-> <<[key |-> Lower(bn), node |-> 4]>>],
      [made |-> TRUE, parent |-> 1, name |-> an, children |-> <<>>],
      [made |-> TRUE, parent |-> 2, name |-> bn, children |-> <<>>]>>

InitTwins ==
    /\ Holds(New(<<>>, <<>>))
    /\ ignore_permission = FALSE
    /\ unrestricted = resolve_unrestricted(DefaultArgs)
    /\ init_args = DefaultArgs
    /\ last = Started
    /\ query = NoQuery
    /\ proxy = NoProxy
    /\ threads = NoThreads
    /\ \E pn \in NodeNames, qn \in NodeNames, an \in NodeNames, bn \in NodeNames :
           nodes = Twins(pn, qn, an, bn)

NextTwins ==
    \/ \E n \in DOMAIN nodes, child \in DOMAIN nodes : RemoveChildren(n, <<NodeRef(child)>>)
    \/ \E n \in DOMAIN nodes, name \in NodeNames : RemoveChildren(n, <<StrRef(name)>>)
    \/ \E n \in {1, 2}, child \in {3, 4} : AddChildren(n, <<child>>)

\* the children of two roots removed, by node and by name, and given to a root again
SpecTwins == InitTwins /\ [][NextTwins]_vars

----------------------------------------------------------------------------
(* Properties                                                              *)

RECURSIVE node_at(_, _)
\* the node a path of child keys leads to, from a command or node
node_at(node, path) ==
    IF path = <<>> THEN node ELSE node_at(node.children[Head(path)], Tail(path))

\* the command the last parse dispatched to, and the final node of its walk
LastCommand == commands[last.command]
LastFinal == node_at(LastCommand, last.final)

\* the last operation was a parse that found its command
Dispatched ==
    last.op = "parse" /\ last.resolved

\* C1: with ignore_permission off, the executable is invoked only if the caller's
\* level satisfies 0 <= required <= caller for the permission of the final node;
\* a caller that does not satisfy it gets NoPermissionError carrying the final node
\* and nothing is invoked or sent; a caller that does gets the returned text as
\* feedback (the disabled flags, checked first, aside).
C1_PermissionGate ==
    (Dispatched /\ ~ignore_permission) =>
        LET required  == LastFinal.permission
            satisfied == 0 <= required /\ required <= last.caller
            enabled   == ~LastCommand.disabled /\ ~LastFinal.disabled
        IN  /\ last.invoked => satisfied
            /\ (enabled /\ ~satisfied) =>
                   /\ last.raised = "NoPermissionError"
                   /\ last.node = last.final
                   /\ ~last.invoked
                   /\ last.sent = <<>>
            /\ (enabled /\ satisfied) =>
                   /\ last.raised = "none"
                   /\ last.invoked
                   /\ last.sent = <<ReturnText>>

\* a caller below the level of an argument node was refused at that node
C1_Witness ==
    /\ Dispatched /\ ~ignore_permission
    /\ last.raised = "NoPermissionError"
    /\ last.final # <<>>
    /\ last.node = last.final
    /\ LastCommand.permission <= last.caller
    /\ LastCommand.permission >= 0

RECURSIVE stop_path(_, _, _)
\* the path of the walk that stops at the first token naming no child
stop_path(node, path, args) ==
    IF args = <<>> THEN path
    ELSE IF dict_has(node.children, Head(args))
         THEN stop_path(node.children[Lower(Head(args))], Append(path, Lower(Head(args))),
                        Tail(args))
         ELSE path

\* C2 as claimed: the walk stops at the first token that names no child of the
\* current node, so that later tokens never change the final node.
C2_StopsAtFirstMismatch ==
    Dispatched => last.final = stop_path(LastCommand, <<>>, last.args)

\* path p is what the tokens args select below cmd when a token that names no child
\* of the current node is passed over: the tokens at idx, in order, are the keys of
\* p, and every other token names no child of the node reached before it
Selects(cmd, args, p) ==
    \E idx \in [DOMAIN p -> DOMAIN args] :
        /\ \A j \in DOMAIN p : Lower(args[idx[j]]) = p[j]
        /\ \A j \in DOMAIN p : j > 1 => idx[j - 1] < idx[j]
        /\ \A i \in DOMAIN args :
               \/ \E j \in DOMAIN p : idx[j] = i
               \/ LET depth == Cardinality({j \in DOMAIN p : idx[j] < i})
                  IN  ~dict_has(node_at(cmd, SubSeq(p, 1, depth)).children, args[i])

\* C2, amended: every token is tried in turn, left to right; one that names a child
\* of the current node descends into it, one that does not is passed over and the
\* walk goes on with the next token.
C2_SkipsMismatches ==
    Dispatched => Selects(LastCommand, last.args, last.final)

\* a token after one that names no child moved the final node
C2_Witness ==
    /\ Dispatched
    /\ last.args = <<ArgX, ArgN>>
    /\ last.final = <<ArgN>>

\* C3: executing a disabled command, or one whose final node is disabled, raises
\* DisabledError whatever the caller's level, invokes nothing and sends nothing.
C3_DisabledFirst ==
    (Dispatched /\ (LastCommand.disabled \/ LastFinal.disabled)) =>
        /\ last.raised = "DisabledError"
        /\ ~last.invoked
        /\ last.sent = <<>>

\* a disabled argument node refused a caller below its level
C3_Witness ==
    /\ Dispatched /\ ~ignore_permission
    /\ ~LastCommand.disabled
    /\ LastFinal.disabled
    /\ last.caller < LastFinal.permission
    /\ last.raised = "DisabledError"

\* C4: has_permission(r) on a source of permission c is true iff 0 <= r <= c.
C4_HasPermission ==
    query.asked =>
        (query.result <=> (0 <= query.perm_lvl /\ query.perm_lvl <= query.permission))

\* a negative level was refused to a caller above it
C4_Witness ==
    /\ query.asked
    /\ query.perm_lvl < 0
    /\ query.perm_lvl <= query.permission
    /\ ~query.result

\* the last parse ended at an argument node of permission 0, nothing disabled
ZeroArgument ==
    /\ Dispatched /\ ~ignore_permission
    /\ last.final # <<>>
    /\ LastFinal.permission = 0
    /\ ~LastCommand.disabled /\ ~LastFinal.disabled

\* C5 as claimed: level 0 is satisfied by every caller, and an execute that ends at
\* an argument node of permission 0 passes the permission check.
C5_ZeroForEveryCaller ==
    last.op = "parse" =>
        /\ has_permission(last.caller, 0)
        /\ ZeroArgument => (last.invoked /\ last.raised = "none")

\* C5, amended: level 0 is satisfied by every caller whose own permission is not
\* negative, and for such a caller an execute that ends at an argument node of
\* permission 0 passes the permission check whatever the command's permission.
C5_ZeroForNonNegativeCaller ==
    (last.op = "parse" /\ last.caller >= 0) =>
        /\ has_permission(last.caller, 0)
        /\ ZeroArgument => (last.invoked /\ last.raised = "none")

\* an argument node of permission 0 let in a caller below the command's level
C5_Witness ==
    /\ ZeroArgument
    /\ last.caller >= 0
    /\ last.caller < LastCommand.permission
    /\ last.invoked


\* the names of the manifest entries, and of the commands in memory
ManifestNames == {manifest[i].name : i \in DOMAIN manifest}
MemoryNames == {commands[k].name : k \in DOMAIN commands}

\* what a mutation operation may write
registry ==
    <<manifest, manifest_prefix, manifest_empty, manifest_exists, files, commands,
      command_data, command_prefix>>

\* C6: parse of a working string that does not start with the prefix looks up and
\* executes no command, sends no feedback and raises nothing.
C6_UnprefixedIgnored ==
    (last.op = "parse" /\ ~StartsWith(last.ws, command_prefix)) =>
        /\ ~last.resolved
        /\ ~last.invoked
        /\ last.sent = <<>>
        /\ last.raised = "none"

\* C7: after reload(), no command whose manifest entry had function = true and whose
\* script is missing or does not compile is in the in-memory command set, and its
\* manifest entry is gone.
C7_ReloadDropsBroken ==
    [][last'.op = "reload" =>
        \A i \in DOMAIN manifest :
            (manifest[i].function /\ ~loads(Registry, manifest[i].name)) =>
                /\ ~dict_has(commands', manifest[i].name)
                /\ ~by_name_has(manifest', manifest[i].name)]_vars

\* C8: after reload, add_command, remove_command and set_disabled the names of the
\* in-memory command set are the names of the manifest.
C8_MemoryMatchesManifest ==
    last.op \in {"reload", "add_command", "remove_command", "set_disabled"} =>
        MemoryNames = ManifestNames

\* C9: when add_command is given a script body that does not compile (and the name
\* is not one a protected entry vetoes), on return neither the in-memory command set
\* nor the manifest holds a command of that name.
C9_BrokenAddLeavesNothing ==
    (/\ last.op = "add_command"
     /\ last.text.func_name # <<>>
     /\ last.text.body = "broken"
     /\ \A i \in DOMAIN manifest :
            manifest[i].name = last.name => manifest[i].overridable) =>
        /\ ~dict_has(commands, last.name)
        /\ ~by_name_has(manifest, last.name)

\* C10: set_disabled, remove_command and add_command on the name of a manifest entry
\* with overridable = false change nothing of the manifest, the script files and the
\* in-memory state, and report failure (False, or the empty string).
C10_ProtectedEntryUntouched ==
    [][(/\ last'.op \in {"set_disabled", "remove_command", "add_command"}
        /\ last'.name # <<>>
        /\ \E i \in DOMAIN manifest :
               manifest[i].name = last'.name /\ ~manifest[i].overridable) =>
            /\ UNCHANGED registry
            /\ ~last'.ok
            /\ last'.ret = <<>>
            /\ last'.raised = "none"]_vars

\* add_command of a script defining a was refused by the protected entry a, whose
\* command is still in memory
C10_Witness ==
    /\ last.op = "add_command"
    /\ last.text.func_name = NameA
    /\ last.ret = <<>>
    /\ by_name_has(manifest, NameA)
    /\ ~by_name_get(manifest, NameA).overridable
    /\ dict_has(commands, NameA)


\* C12: PrivateProxy(o, exclude, include) exposes exactly the attributes (name, value)
\* of o for which include(name, value) is true, or exclude(name, value) is false and
\* the name does not start with '_'; no other attribute of o is set on the proxy.
C12_ProxyExposesExactly ==
    proxy.made =>
        /\ DOMAIN proxy.attrs \subseteq DOMAIN proxy.o
        /\ \A attr \in DOMAIN proxy.o :
               LET attr_val == proxy.o[attr]
                   shown == \/ proxy.include_predicate[<<attr, attr_val>>]
                            \/ /\ ~proxy.exclude_predicate[<<attr, attr_val>>]
                               /\ Head(attr) # "_"
               IN  /\ (attr \in DOMAIN proxy.attrs) <=> shown
                   /\ (attr \in DOMAIN proxy.attrs) => proxy.attrs[attr] = attr_val

\* a proxy was made that shows an underscore attribute the inclusion let through and
\* lacks a public attribute the exclusion took out
C12_Witness ==
    /\ proxy.made
    /\ <<"_", "attr">> \in DOMAIN proxy.attrs
    /\ <<"a", "ttr">> \notin DOMAIN proxy.attrs
    /\ <<"p", "ath">> \in DOMAIN proxy.attrs


\* the named parameters of the last parse before _execute proxies them
LastKwargs ==
    ("self" :> command_object) @@ ("context" :> context_object)
    @@ ("parser" :> parser_object) @@ last.kwargs

\* the last parse invoked the executable
Invoked ==
    last.op = "parse" /\ last.invoked

\* what C11 says of the named parameters the executable is handed: proxies without
\* underscore names and Path values when restricted, the objects themselves when
\* unrestricted, when nothing is hidden
HandedAsClaimed ==
    Invoked =>
        /\ DOMAIN last.handed = DOMAIN LastKwargs
        /\ ~unrestricted =>
               \A kwarg \in DOMAIN last.handed :
                   /\ last.handed[kwarg].proxied
                   /\ \A attr \in DOMAIN last.handed[kwarg].attrs :
                          /\ Head(attr) # "_"
                          /\ last.handed[kwarg].attrs[attr] # PathValue
        /\ unrestricted =>
               /\ \A kwarg \in DOMAIN last.handed :
                      /\ ~last.handed[kwarg].proxied
                      /\ last.handed[kwarg].attrs = LastKwargs[kwarg]
               /\ \A kwarg \in DOMAIN LastKwargs :
                      \A attr \in DOMAIN LastKwargs[kwarg], kind \in Kinds :
                          ~should_hide_attr(unrestricted, attr, kind)

\* C11 as claimed: the handed parameters are as above, and unrestricted mode is off
\* unless it was explicitly requested at construction.
C11_SandboxOffOnlyOnRequest ==
    /\ HandedAsClaimed
    /\ Constructed => (unrestricted => init_args.unrestricted = "True")

\* C11, amended: the handed parameters are as above, and unrestricted mode is on
\* exactly when it was requested at construction, or nothing was requested and the
\* interpreter is not CPython.
C11_SandboxOffOnCPythonDefault ==
    /\ HandedAsClaimed
    /\ Constructed =>
           (unrestricted <=>
               \/ init_args.unrestricted = "True"
               \/ init_args.unrestricted = "None" /\ init_args.impl # "CPython")

\* a restricted registry handed the executable a proxy of the host's object that
\* lacks its Path and its private value and shows the view that is a proxy already
C11_Witness ==
    /\ Invoked
    /\ ~unrestricted
    /\ "extra" \in DOMAIN last.handed
    /\ DOMAIN last.handed["extra"].attrs = {<<"d", "ata">>, <<"v", "iew">>}
    /\ <<"p", "ath">> \notin DOMAIN last.handed["parser"].attrs

\* the executable of the last parse raised
Raised ==
    last.op = "parse" /\ last.invoked /\ last.cause # "none"

\* C13 as claimed: whenever the executable raises E, execute raises a CommandError
\* whose cause is E and parse raises E itself to its caller.
C13_CauseAlwaysReraised ==
    Raised =>
        /\ last.thrown = "CommandError"
        /\ last.raised = last.cause

\* C13, amended: whenever the executable raises E, execute raises a CommandError whose
\* cause is E; parse raises E itself, never the wrapper, when E is a CommandError (an
\* ImproperUsageError), and raises nothing when E is of any other type.
C13_CommandErrorCauseReraised ==
    Raised =>
        /\ last.thrown = "CommandError"
        /\ last.cause \in CommandErrors => last.raised = last.cause
        /\ last.cause \notin CommandErrors => last.raised = "none"

\* a script raised ImproperUsageError and parse raised it, unwrapped
C13_Witness ==
    /\ Raised
    /\ last.cause = "ImproperUsageError"
    /\ last.thrown = "CommandError"
    /\ last.raised = "ImproperUsageError"

\* C14: when the executable raises ImproperUsageError, parse sends its message once
\* with every placeholder replaced by the current prefix (nothing for an empty
\* message) and raises that error; for another exception nothing is sent.
C14_UsageMessageRelayed ==
    Raised =>
        /\ last.cause = "ImproperUsageError" =>
               /\ last.raised = "ImproperUsageError"
               /\ last.message = UsageMessage =>
                      last.sent = << <<"u">> \o command_prefix \o <<"h", " ">>
                                     \o command_prefix >>
               /\ last.message = <<>> => last.sent = <<>>
        /\ last.cause # "ImproperUsageError" => last.sent = <<>>

\* the usage message reached the caller with the two-character prefix in both places
C14_Witness ==
    /\ Raised
    /\ last.cause = "ImproperUsageError"
    /\ command_prefix = <<"!", "#">>
    /\ last.sent = << <<"u", "!", "#", "h", " ", "!", "#">> >>

\* the last parse ran the executable to its return
Returned ==
    last.op = "parse" /\ last.invoked /\ last.cause = "none"

\* C15 as claimed: after a successful execute the returned text is sent once,
\* unmodified, when it is not empty, and nothing is sent when the executable returned
\* nothing or the empty text.
C15_EmptyReturnNotSent ==
    Returned =>
        /\ LastCommand.function = "ok" => last.sent = <<ReturnText>>
        /\ LastCommand.function \in {"none", "empty", DUMMY_FUNC} => last.sent = <<>>

\* C15, amended: after a successful execute the returned text is sent once,
\* unmodified, whenever the executable returned a value, the empty text included;
\* nothing is sent only when it returned nothing (None).
C15_ReturnSentUnlessNone ==
    Returned =>
        /\ LastCommand.function = "ok" => last.sent = <<ReturnText>>
        /\ LastCommand.function = "empty" => last.sent = << <<>> >>
        /\ LastCommand.function \in {"none", DUMMY_FUNC} => last.sent = <<>>

\* a script returned the empty text and it was sent
C15_Witness ==
    /\ Returned
    /\ LastCommand.function = "empty"
    /\ last.sent = << <<>> >>

\* the input of a working string that starts with the prefix: what follows it,
\* without the trailing tag characters and the surrounding blanks
InputOf(ws, pre) ==
    strip(rstrip(SubSeq(ws, Len(pre) + 1, Len(ws)), {TagChar}))

\* C16: parse of a prefixed, non-empty input whose first token is the name of no
\* command raises NotFoundError naming that token and carrying no command; nothing
\* is invoked, nothing is sent and the registry is unchanged, under every prefix.
C16_NotFound ==
    [][(/\ last'.op = "parse"
        /\ StartsWith(last'.ws, command_prefix)
        /\ InputOf(last'.ws, command_prefix) # <<>>
        /\ Lower(split(InputOf(last'.ws, command_prefix), " ")[1]) \notin DOMAIN commands) =>
            /\ last'.raised = "NotFoundError"
            /\ last'.token = split(InputOf(last'.ws, command_prefix), " ")[1]
            /\ last'.command = <<>>
            /\ ~last'.resolved
            /\ ~last'.invoked
            /\ last'.sent = <<>>
            /\ UNCHANGED registry]_vars

\* under the two-character prefix, an unknown name was reported
C16_Witness ==
    /\ last.op = "parse"
    /\ command_prefix = <<"!", "#">>
    /\ last.ws = <<"!", "#", "b", " ", "n">>
    /\ last.raised = "NotFoundError"
    /\ last.token = NameB

\* the first token of the last parse, a prefixed one, is the name of a command but
\* for letter case
CaseVariant ==
    /\ last.op = "parse"
    /\ StartsWith(last.ws, command_prefix)
    /\ InputOf(last.ws, command_prefix) # <<>>
    /\ Lower(split(InputOf(last.ws, command_prefix), " ")[1]) \in DOMAIN commands

\* C17: an input whose first token differs from the name of a command only in letter
\* case dispatches to that command, with the same arguments and the same outcome as
\* the input that spells the name as registered.
C17_CaseInsensitive ==
    CaseVariant =>
        LET input_ == InputOf(last.ws, command_prefix)
            rest   == SubSeq(input_, Len(split(input_, " ")[1]) + 1, Len(input_))
            cmd    == commands[Lower(split(input_, " ")[1])]
            exact  == parse(Registry, ignore_permission, unrestricted,
                            command_prefix \o cmd.name \o rest, last.kwargs, last.caller)
        IN  /\ last.resolved
            /\ last.command = Lower(cmd.name)
            /\ last.args = Tail(split(input_, " "))
            /\ \A f \in {"command", "args", "final", "node", "raised", "thrown",
                         "invoked", "returned", "sent"} : last[f] = exact[f]

\* a token in the other case than the registered name ran the command
C17_Witness ==
    /\ CaseVariant
    /\ last.token # LastCommand.name
    /\ last.args = <<ArgN>>
    /\ last.invoked

\* C18: add_command of a script with a metadata comment header, followed by reload(),
\* yields a registered Command whose name, usage, description and permission equal
\* the values the header declares, and the stored script defines its entry point
\* under the name 'command' whatever the function was called, so that the Command
\* is bound to the function of the script.
C18_HeaderRoundTrip ==
    [][(/\ last.op = "add_command"
        /\ last.ret # <<>>
        /\ last'.op = "reload") =>
            /\ dict_has(commands', last.text.name)
            /\ LET cmd == commands'[Lower(last.text.name)]
               IN  /\ cmd.name = last.text.name
                   /\ cmd.usage = last.text.usage
                   /\ cmd.description = last.text.description
                   /\ str(cmd.permission) = last.text.permission
                   /\ files'[last.text.name].entry = CommandDef
                   /\ cmd.function = last.text.body]_vars

\* C19: add_command persists the manifest record and the script file all or nothing:
\* when it fails to open or write either file, the manifest holds what it held
\* before the call, the in-memory command set is unchanged and no command is
\* reported as added; the manifest is never truncated while the script file was
\* not written.
C19_AllOrNothing ==
    [][(/\ last'.op = "add_command"
        /\ last'.raised # "none") =>
            /\ manifest' = manifest
            /\ manifest_prefix' = manifest_prefix
            /\ manifest_empty' = manifest_empty
            /\ commands' = commands
            /\ command_data' = command_data
            /\ last'.ret = <<>>]_vars

\* C20: remove_command(name) for an existing overridable manifest entry returns
\* name, and afterwards the name is absent from the manifest, from the in-memory
\* command set and from the script files, also when the entry has function = false
\* and no script file; for a name with neither a manifest entry nor a script file it
\* returns the empty string and leaves the command list of the manifest and the
\* in-memory command set unchanged.
C20_RemoveCommand ==
    [][last'.op = "remove_command" =>
        LET name   == last'.name
            listed == {i \in DOMAIN manifest : manifest[i].name = name}
        IN  /\ (\E i \in listed : manifest[i].overridable) =>
                    /\ last'.ret = name
                    /\ \A i \in DOMAIN manifest' : manifest'[i].name # name
                    /\ Lower(name) \notin DOMAIN commands'
                    /\ \A i \in DOMAIN command_data' : command_data'[i].name # name
                    /\ name \notin DOMAIN files'
            /\ (listed = {} /\ name \notin DOMAIN files) =>
                    /\ last'.ret = <<>>
                    /\ manifest' = manifest
                    /\ commands' = commands
                    /\ command_data' = command_data]_vars

\* a command that was registered in memory has been removed: the call returned its
\* name and neither the manifest, the command set nor the script files hold it
C20_Witness ==
    /\ last.op = "remove_command"
    /\ last.ret = NameA
    /\ last.name = NameA
    /\ ~by_name_has(manifest, NameA)
    /\ ~dict_has(commands, NameA)
    /\ NameA \notin DOMAIN files
    /\ dict_has(commands, NameB)

\* C21: set_disabled(name, v) on a registered overridable command returns True and
\* afterwards the disabled flag of the manifest entry and of the in-memory command
\* both equal v; a reload() that follows yields a command with disabled = v; and
\* set_disabled(name, True) followed by set_disabled(name, False) restores a command
\* that executes as before.
C21_SetDisabled ==
    [][(/\ last'.op = "set_disabled"
        /\ \E i \in DOMAIN manifest : /\ manifest[i].name = last'.name
                                       /\ manifest[i].overridable
        /\ Lower(last'.name) \in DOMAIN commands) =>
            LET name     == last'.name
                v        == last'.value
                reloaded == reload(Registry')
                back     == set_disabled(Registry', name, FALSE)
            IN  /\ last'.ok
                /\ \A i \in DOMAIN manifest' :
                       manifest'[i].name = name => manifest'[i].disabled = v
                /\ \E i \in DOMAIN manifest' : manifest'[i].name = name
                /\ commands'[Lower(name)].disabled = v
                /\ Lower(name) \in DOMAIN reloaded.commands
                /\ reloaded.commands[Lower(name)].disabled = v
                /\ (v /\ ~commands[Lower(name)].disabled) =>
                       /\ back.ok
                       /\ back.S.commands = commands
                       /\ \A c \in {0, 1} :
                              parse(back.S, ignore_permission, unrestricted,
                                    Prefix \o name, NoExtras, c)
                              = parse(Registry, ignore_permission, unrestricted,
                                      Prefix \o name, NoExtras, c)]_vars

\* a registered command has been disabled: the manifest entry and the Command in
\* memory both carry the flag
C21_Witness ==
    /\ last.op = "set_disabled"
    /\ last.ok
    /\ last.value
    /\ last.name = NameA
    /\ dict_has(commands, NameA) /\ commands[NameA].disabled
    /\ \E i \in DOMAIN manifest : manifest[i].name = NameA /\ manifest[i].disabled

\* C22: assigning parser.prefix = p leaves the prefix getter and the commandPrefix of
\* the manifest equal to p and the command list of the manifest unchanged, and a
\* later reload(), set_disabled, add_command or remove_command leaves the in-memory
\* prefix and the manifest prefix as they are.
C22_PrefixKept ==
    [][/\ (last'.op = "set_prefix" /\ ~manifest_empty) =>
            /\ command_prefix' = last'.name
            /\ manifest_prefix' = last'.name
            /\ manifest' = manifest
       /\ (/\ last'.op \in {"reload", "set_disabled", "add_command", "remove_command"}
           /\ ~manifest_empty
           /\ command_prefix = manifest_prefix) =>
            /\ command_prefix' = command_prefix
            /\ manifest_prefix' = command_prefix]_vars

\* C23: reload(), and with it the construction of a registry, raises
\* FileNotFoundError when the commands path holds no manifest file: no registry is
\* ever produced without a manifest.
C23_NoManifestNoRegistry ==
    [][~manifest_exists =>
        /\ last'.raised = "FileNotFoundError"
        /\ last'.op = "new"
        /\ ~last'.ok
        /\ commands' = EmptyDict
        /\ command_data' = <<>>]_vars

\* construction was tried on a directory without commands.json and failed
C23_Witness ==
    /\ ~manifest_exists
    /\ last.op = "new"
    /\ last.raised = "FileNotFoundError"
    /\ NameA \in DOMAIN files

\* the change the call makes to the manifest is in the manifest
present(c) ==
    CASE c.op = "set_disabled" ->
             \E i \in DOMAIN manifest : /\ manifest[i].name = c.name
                                         /\ manifest[i].disabled = c.value
      [] c.op = "remove_command" ->
             \A i \in DOMAIN manifest : manifest[i].name # c.name
      [] c.op = "add_command" ->
             \E i \in DOMAIN manifest : manifest[i].name = new_data(c.text).name
      [] c.op = "set_prefix" -> manifest_prefix = c.prefix
      [] OTHER -> TRUE

AllDone ==
    \A t \in DOMAIN threads : threads[t].pc = "done"

\* C24: two operations on one registry that run concurrently can interleave their
\* reads and writes of the manifest so that the change of one is missing from the
\* final manifest, or so that a concurrent reload reads a truncated manifest; when
\* the host serializes the calls, no call fails and both changes are in the final
\* manifest.
C24_SerializedKeepsBoth ==
    (AllDone /\ \A t \in DOMAIN threads : ~threads[t].raced) =>
        /\ ~manifest_empty
        /\ \A t \in DOMAIN threads :
               threads[t].raised = "none" /\ present(threads[t].call_)

\* a lost update: both calls returned without an error and the change of one of
\* them is not in the manifest
C24_Witness ==
    /\ AllDone
    /\ DOMAIN threads # {}
    /\ \A t \in DOMAIN threads : threads[t].raised = "none"
    /\ \E t \in DOMAIN threads : ~present(threads[t].call_)

\* C25: after any sequence of Node construction, add_children, remove_children,
\* renaming and parent assignment, every node whose parent is not None is, under its
\* own name, the entry of the children of its parent, also when a rename or an
\* add_children aimed at a name a sibling held.
C25_ChildUnderOwnName ==
    \A n \in DOMAIN nodes :
        (nodes[n].made /\ nodes[n].parent # NoNode) =>
            /\ ch_has(nodes[nodes[n].parent].children, nodes[n].name)
            /\ ch_get(nodes[nodes[n].parent].children, nodes[n].name) = n

\* C26: in any sequence of renames of nodes that share a parent, each rename
\* node.name = x completes without error, and afterwards the children of the parent
\* hold the node under x and no longer hold it under its old name.
C26_RenameKeepsReachable ==
    [][(last'.op = "name" /\ nodes[last'.self].parent # NoNode) =>
        LET n   == last'.self
            x   == last'.value
            old == nodes[n].name
            ch  == nodes'[nodes[n].parent].children
        IN  /\ last'.raised = "none"
            /\ ch_has(ch, x) /\ ch_get(ch, x) = n
            /\ Lower(old) # Lower(x) => ~(ch_has(ch, old) /\ ch_get(ch, old) = n)]_vars

\* C27: P.add_children(n1, ..., nk) sets the parent of every ni to P, takes ni out of
\* the children of its previous parent, and leaves ni in the children of P under its
\* name, in place of any node that held the name (a later argument of the same name
\* takes the place in turn); however often a node is given, P holds one entry for it.
C27_AddChildren ==
    [][last'.op = "add_children" =>
        LET P   == last'.self
            seq == last'.children
            ch  == nodes'[P].children
        IN  /\ last'.raised = "none"
            /\ \A i \in DOMAIN seq :
                   LET ni      == seq[i]
                       q       == nodes[ni].parent
                       covered == \E j \in DOMAIN seq :
                                      /\ j > i
                                      /\ seq[j] # ni
                                      /\ Lower(nodes[seq[j]].name) = Lower(nodes[ni].name)
                   IN  /\ nodes'[ni].parent = P
                       /\ (q # NoNode /\ q # P) =>
                              \A k \in DOMAIN nodes'[q].children :
                                  nodes'[q].children[k].node # ni
                       /\ ~covered =>
                              /\ ch_has(ch, nodes[ni].name)
                              /\ ch_get(ch, nodes[ni].name) = ni
                              /\ Cardinality({k \in DOMAIN ch : ch[k].node = ni}) = 1]_vars

\* the reference names a child of P: a Node that is a value of its children, or a
\* name that is a key of them
refers(H, P, ref) ==
    IF ref.kind = "Node"
    THEN \E k \in DOMAIN H[P].children : H[P].children[k].node = ref.node
    ELSE ch_has(H[P].children, ref.name)

\* the child of P the reference names
referred(H, P, ref) ==
    IF ref.kind = "Node" THEN ref.node ELSE ch_get(H[P].children, ref.name)

\* C28: P.remove_children(r1, ..., rk), each ri a child of P or the name of one, sets
\* the parent of every child referred to to None and takes it out of the children of
\* P, and leaves every other child of P in place.
C28_RemoveChildren ==
    [][(/\ last'.op = "remove_children"
        /\ \A i \in DOMAIN last'.children :
               refers(nodes, last'.self, last'.children[i])) =>
        LET P    == last'.self
            refs == last'.children
            gone == {referred(nodes, P, refs[i]) : i \in DOMAIN refs}
        IN  /\ last'.raised = "none"
            /\ \A c \in gone : nodes'[c].parent = NoNode
            /\ nodes'[P].children =
                   SelectSeq(nodes[P].children, LAMBDA item : item.node \notin gone)]_vars

RECURSIVE rooted(_, _, _)
\* the ancestry of n ends within k steps, at a node without a parent or at a node
\* that is its own parent
rooted(H, n, k) ==
    \/ H[n].parent = NoNode
    \/ H[n].parent = n
    \/ k > 0 /\ rooted(H, H[n].parent, k - 1)

\* C29: a node may be assigned as its own parent, and is then in its own children
\* under its name; where no ancestry runs in a cycle other than a node that is its
\* own parent, rendering the path of a node and comparing two nodes, two distinct
\* self-parented nodes of one name included, end with a result.
C29_SelfParentTerminates ==
    [][/\ (last'.op = "parent" /\ last'.other = last'.self) =>
            /\ last'.raised = "none"
            /\ nodes'[last'.self].parent = last'.self
            /\ ch_has(nodes'[last'.self].children, nodes'[last'.self].name)
            /\ ch_get(nodes'[last'.self].children, nodes'[last'.self].name) = last'.self
       /\ (/\ last'.op \in {"eq", "str"}
           /\ \A n \in DOMAIN nodes : nodes[n].made => rooted(nodes, n, MaxNodes)) =>
            last'.raised = "none"]_vars

\* C30: constructing a Node with a keyword it does not know raises ValueError and
\* leaves no trace: the children of the node given as parent are what they were.
C30_FailedConstruction ==
    [][(last'.op = "Node" /\ last'.unexpected) =>
        /\ last'.raised = "ValueError"
        /\ last'.other # NoNode =>
               nodes'[last'.other].children = nodes[last'.other].children]_vars

\* C31: for a manifest entry with overridable = false, no add_command, remove_command
\* or set_disabled, called with the name of the entry in any letter case, changes the
\* command the case-insensitive lookup of the name returns in memory, its disabled
\* flag included, or the command the lookup returns after a reload().
C31_ProtectedInAnyCase ==
    [][last'.op \in {"set_disabled", "remove_command", "add_command"} =>
        \A i \in DOMAIN manifest :
            (~manifest[i].overridable /\ dict_has(commands, manifest[i].name)) =>
                LET k == Lower(manifest[i].name)
                IN  /\ k \in DOMAIN commands'
                    /\ commands'[k] = commands[k]
                    /\ k \in DOMAIN reload(Registry').commands
                    /\ reload(Registry').commands[k] = reload(Registry).commands[k]]_vars

\* C32: a manifest child entry may carry any key of the command entry shape: reload()
\* does not fail, the parent command is in memory with the child among its children,
\* and no script is loaded for the child
C32_ChildOfAnyShape ==
    [][(last'.op \in {"new", "reload"} /\ json_load(Registry) = "none") =>
        /\ last'.raised = "none"
        /\ \A i \in DOMAIN manifest :
               /\ dict_has(commands', manifest[i].name)
               /\ \A j \in DOMAIN manifest[i].children :
                      /\ dict_has(commands'[Lower(manifest[i].name)].children,
                                  manifest[i].children[j].name)
                      /\ "function" \notin
                             DOMAIN commands'[Lower(manifest[i].name)].children[
                                        Lower(manifest[i].children[j].name)]]_vars

\* C33: every keyword argument supplied to add_command, whatever its value, is the
\* value the stored CommandData and the resulting Command carry, not the header's
C33_KwargsOverrideHeader ==
    [][(last'.op = "add_command" /\ last'.ret # <<>>) =>
        LET kw    == last'.text.kwargs
            entry == by_name_get(by_name(manifest'), last'.ret)
            cmd   == commands'[Lower(last'.ret)]
        IN  \A k \in DOMAIN kw :
                /\ entry[k] = kw[k]
                /\ IF k = "children" THEN cmd.children = node_children(kw[k])
                   ELSE cmd[k] = kw[k]]_vars

\* C34: a reload() that raises (manifest missing or invalid, or an error constructing
\* a command) leaves the prefix, the command_data mirror and the commands in memory
\* as they were before the call
C34_FailedReloadChangesNothing ==
    [][(Constructed /\ last'.op = "reload" /\ last'.raised # "none") =>
        /\ command_prefix' = command_prefix
        /\ command_data' = command_data
        /\ commands' = commands]_vars

\* C35: after reload() and after every successful set_disabled, add_command and
\* remove_command the command_data mirror equals the manifest's command list, entry
\* for entry, the disabled flags included
C35_MirrorEqualsManifest ==
    [][(/\ last'.op \in {"reload", "set_disabled", "add_command", "remove_command"}
        /\ last'.ok
        /\ last'.raised = "none") =>
            command_data' = manifest']_vars

\* C36: set_disabled(name, v) for a name with no manifest entry returns False and
\* leaves the manifest and the commands in memory unchanged
C36_SetDisabledUnknownName ==
    [][(/\ last'.op = "set_disabled"
        /\ json_load(Registry) = "none"
        /\ ~by_name_has(by_name(manifest), last'.name)) =>
            /\ last'.raised = "none"
            /\ ~last'.ok
            /\ manifest' = manifest
            /\ commands' = commands]_vars

\* C37: add_command on a text with no top-level function definition returns the
\* empty string and changes neither the manifest, nor a script file, nor the
\* commands in memory
C37_NoFunctionNoChange ==
    [][(last'.op = "add_command" /\ last'.text.func_name = <<>>) =>
        /\ last'.raised = "none"
        /\ last'.ret = <<>>
        /\ manifest' = manifest
        /\ files' = files
        /\ commands' = commands]_vars

\* C38: a header value that cannot be parsed to the type of its field does not abort
\* add_command: the field keeps its default, the other header fields are applied,
\* and the command is added and returned by name
C38_UnparsableHeaderValue ==
    [][(/\ last'.op = "add_command"
        /\ last'.text.func_name # <<>>
        /\ last'.text.no_colon = {}
        /\ json_load(Registry) = "none"
        /\ \/ ~parses_int(last'.text.permission)
           \/ last'.text.children.kind \in {"unparsable", "scalar"}) =>
            /\ last'.raised = "none"
            /\ last'.ret = func_name_of(last'.text)
            /\ dict_has(commands', last'.ret)
            /\ LET cmd == commands'[Lower(last'.ret)]
               IN  /\ cmd.usage = last'.text.usage
                   /\ ~parses_int(last'.text.permission) => cmd.permission = 0
                   /\ parses_int(last'.text.permission) =>
                          str(cmd.permission) = last'.text.permission
                   /\ last'.text.children.kind # "list" => cmd.children = EmptyDict
                   /\ last'.text.children.kind = "list" =>
                          cmd.children = node_children(last'.text.children.list)]_vars

\* C39: every entry k -> c of the children of any node p satisfies c.parent is p and
\* c.name equals k ignoring letter case
C39_EntriesBelong ==
    \A p \in DOMAIN nodes :
        \A i \in DOMAIN nodes[p].children :
            LET c == nodes[p].children[i].node
            IN  /\ nodes[c].parent = p
                /\ Lower(nodes[c].name) = nodes[p].children[i].key

\* a node renamed to upper case under a parent it was given, next to a sibling, after
\* another child was removed: the entry is filed under the lower-case key
C39_Witness ==
    /\ last.op = "remove_children"
    /\ last.raised = "none"
    /\ \E p \in DOMAIN nodes :
           /\ Len(nodes[p].children) = 1
           /\ nodes[p].children[1].key = <<"y">>
           /\ nodes[nodes[p].children[1].node].name = <<"Y">>
           /\ nodes[nodes[p].children[1].node].parent = p
           /\ \E c \in DOMAIN nodes : c # p /\ nodes[c].made /\ nodes[c].parent = NoNode

\* C40: P.remove_children(x) with x a node that is no child of P, or a name P has no
\* child under, changes no node's parent and no node's children
C40_RemoveNonChild ==
    [][(/\ last'.op = "remove_children"
        /\ \A i \in DOMAIN last'.children :
               ~refers(nodes, last'.self, last'.children[i])) =>
            \A n \in DOMAIN nodes :
                /\ nodes'[n].parent = nodes[n].parent
                /\ nodes'[n].children = nodes[n].children]_vars

====
